---- MODULE Spec2Model ----
(***************************************************************************)
(* pytest-nhsd-apim: the token cache (token_cache.py), the cached token     *)
(* flows (auth_journey.py) and the authenticators (identity_service.py);    *)
(* further down the Apigee credentials and client (apigee_apis.py), the     *)
(* authorization marker (nhsd_apim_authorization.py), the test app and the  *)
(* products (apigee_edge.py) and the configuration (config.py).             *)
(*                                                                          *)
(* The clock is time() in whole seconds.  A Python dict is a TLA+ function  *)
(* whose DOMAIN is the set of its keys, so `"issued_at" in token_data` is   *)
(* "issued_at" \in DOMAIN token_data.  A call is executed one HTTP request  *)
(* at a time: the frames of the calls in progress are on `stack`, and the   *)
(* code between two requests runs inside the action of the request.         *)
(***************************************************************************)
EXTENDS Integers, Sequences, FiniteSets, TLC

VARIABLES
    now,      \* time(), whole seconds since the epoch
    ticks,    \* number of clock advances so far
    ncalls,   \* number of top-level calls started so far
    caches,   \* _CACHES: function name -> _TokenCache._cache (key -> token_data)
    born,     \* history: function name -> key -> time the entry's token was fetched
    stack,    \* frames of the calls in progress, the innermost last
    ret,      \* the value or exception travelling to the caller; NoRet when none
    flow,     \* history: the flow of the current top-level call that sends the
              \* requests, or the last that did
    calls,    \* history: the calls completed in the current top-level call
    probe     \* the functions applied on their own: their inputs and what they
              \* gave; <<>> where the flows run as a whole

vars == <<now, ticks, ncalls, caches, born, stack, ret, flow, calls, probe>>

----------------------------------------------------------------------------
(* Bounds of the model *)

Epoch == 1700000       \* time() when the session starts
MaxTicks == 2          \* clock advances per behaviour
MaxCalls == 2          \* top-level calls per behaviour

TickSteps == {7, 594, 996}     \* seconds by which the clock advances
ExpiresIns == {6, 600}         \* expires_in values the servers issue
PageStatuses == {200, 404}     \* statuses of pages: the flows only tell 200 from the rest
Statuses == {200, 201, 404}    \* statuses of the token endpoint: 200, another 2xx, an error

----------------------------------------------------------------------------
(* Python values used as call arguments and cache keys *)

Str(x) == [k |-> "str", n |-> x, s |-> <<>>]
Num(i) == [k |-> "int", n |-> "", s |-> <<i>>]
Tup(xs) == [k |-> "tuple", n |-> "", s |-> xs]
Dict(items) == [k |-> "dict", n |-> "", s |-> items]    \* items: <<key, value>> pairs in insertion order
KWD_MARK == [k |-> "object", n |-> "_KWD_MARK", s |-> <<>>]

\* None, and the empty dict
None == [None |-> TRUE]
EmptyMap == [x \in {} |-> x]
Truthy(v) == v # None /\ DOMAIN v # {}

\* Rank of a dict key in Python's string order, for the keys the flows use.
KeyRank == [cis2 |-> 1, client_id |-> 2, client_secret |-> 3, id_token |-> 4,
            jwt_kid |-> 5, redirect_uri |-> 6, username |-> 7]

\* d[key] of a Python dict value
RECURSIVE ItemsGet(_, _)
ItemsGet(items, key) ==
    IF Head(items)[1] = Str(key) THEN Head(items)[2] ELSE ItemsGet(Tail(items), key)
DictGet(d, key) == ItemsGet(d.s, key)

RECURSIVE InsertSorted(_, _)
InsertSorted(item, xs) ==
    IF xs = <<>> THEN <<item>>
    ELSE IF KeyRank[item[1].n] <= KeyRank[Head(xs)[1].n]
         THEN <<item>> \o xs
         ELSE <<Head(xs)>> \o InsertSorted(item, Tail(xs))

\* Items left in the order the caller wrote them; C12 tells it from sorted().
SortItemsAsWritten(xs) == xs

\* sorted(d.items()): the keys of a dict are distinct, so the key decides
RECURSIVE SortItems(_)
SortItems(xs) == IF xs = <<>> THEN <<>> ELSE InsertSorted(Head(xs), SortItems(Tail(xs)))

RECURSIVE _recursive_make_hashable(_)
RECURSIVE HashableAll(_)
RECURSIVE HashableItems(_)
HashableAll(xs) ==
    IF xs = <<>> THEN <<>>
    ELSE <<_recursive_make_hashable(Head(xs))>> \o HashableAll(Tail(xs))
HashableItems(items) ==
    IF items = <<>> THEN <<>>
    ELSE <<<<Head(items)[1], _recursive_make_hashable(Head(items)[2])>>>>
         \o HashableItems(Tail(items))
PairsAsTuples(items) == [i \in 1..Len(items) |-> Tup(items[i])]
_recursive_make_hashable(d) ==
    IF d.k = "dict" THEN Tup(PairsAsTuples(SortItems(HashableItems(d.s))))
    ELSE IF d.k = "tuple" THEN Tup(HashableAll(d.s))
    ELSE d

\* cache_key of wrapper(*args, **kwargs)
CacheKey(args, kwargs) ==
    _recursive_make_hashable(Tup(args)).s \o <<KWD_MARK>> \o _recursive_make_hashable(Dict(kwargs)).s

----------------------------------------------------------------------------
(* _TokenCache *)

grace_period_seconds == 5
SynthesizedAge == 5000          \* insert: time() - 5000
MsFactor == 1000                \* get: 1000 * int(expires_in)

\* _TokenCache.insert(key, token_data) at time t: the cache afterwards
InsertData(token_data, t) ==
    IF "issued_at" \in DOMAIN token_data
    THEN token_data
    ELSE token_data @@ ("issued_at" :> t - SynthesizedAge)

CacheInsert(cache, key, token_data, t) ==
    (key :> InsertData(token_data, t)) @@ cache

MapRemove(m, key) == [x \in DOMAIN m \ {key} |-> m[x]]

\* expiry_time of get()
ExpiryTime(token_data) == token_data["issued_at"] + MsFactor * token_data["expires_in"]

\* now_ish > expiry_time
Expired(token_data, t) == t + grace_period_seconds > ExpiryTime(token_data)

\* A lookup that never finds anything; C1 tells it from get().
CacheGetNothing(cache, key, t) == [cache |-> cache, value |-> None, raised |-> FALSE]

\* _TokenCache.get(key) at time t: the cache afterwards, the value returned,
\* and whether the lookup raised KeyError (a token_data without expires_in)
CacheGet(cache, key, t) ==
    IF key \notin DOMAIN cache
    THEN [cache |-> cache, value |-> None, raised |-> FALSE]
    ELSE IF "expires_in" \notin DOMAIN cache[key]
    THEN [cache |-> cache, value |-> None, raised |-> TRUE]
    ELSE IF Expired(cache[key], t)
    THEN [cache |-> MapRemove(cache, key), value |-> None, raised |-> FALSE]
    ELSE [cache |-> cache, value |-> cache[key], raised |-> FALSE]

----------------------------------------------------------------------------
(* HTTP responses *)

HtmlBody == [json |-> FALSE, data |-> EmptyMap]                       \* a page, not JSON
ErrorBody == [json |-> TRUE, data |-> [error |-> "invalid_request"]]   \* an OAuth error object
NoBody == [json |-> FALSE, data |-> None]

\* what GET <base>/authorize, or GET <keycloak>/auth, is answered with
AuthorizeResponses == [status : PageStatuses, form : BOOLEAN, body : {HtmlBody}]

\* what the login submission is answered with: the status of the last response,
\* whether redirects were followed (resp.history), and the values of the code
\* parameter in the Location header of the last redirect
LoginResponses ==
    [status : PageStatuses, history : {FALSE}, codes : {<<>>}, body : {HtmlBody}]
    \cup [status : PageStatuses, history : {TRUE},
          codes : {<<>>, <<"c1">>, <<"c1", "c2">>}, body : {HtmlBody}]

\* the token payloads a server issues at time t as its token number serial:
\* expires_in in seconds, issued_at (when the server sends one) in epoch
\* milliseconds, and an id_token from the identity provider
TokenPayloads(t, serial, withIdToken) ==
    LET base == {[access_token |-> serial, expires_in |-> e] : e \in ExpiresIns}
        stamped == base \cup {p @@ ("issued_at" :> MsFactor * t) : p \in base}
    IN IF withIdToken THEN {p @@ ("id_token" :> serial) : p \in stamped} ELSE stamped

\* what POST <base>/token is answered with: status 200 with a token payload,
\* any other status with an error object or a page
TokenResponses(t, serial, withIdToken) ==
    {[status |-> 200, body |-> [json |-> TRUE, data |-> p]] :
        p \in TokenPayloads(t, serial, withIdToken)}
    \cup [status : Statuses \ {200}, body : {ErrorBody, HtmlBody}]

----------------------------------------------------------------------------
(* Outcomes of a call *)

NoRet == [kind |-> "none", value |-> None, err |-> "", status |-> 0, body |-> NoBody]
Return(v) == [NoRet EXCEPT !.kind = "return", !.value = v]
Raise(e) == [NoRet EXCEPT !.kind = "raise", !.err = e]
\* RuntimeError(f"{resp.status_code}: {resp.text}"), and requests' HTTPError,
\* which holds the response
RaiseWith(e, resp) ==
    [NoRet EXCEPT !.kind = "raise", !.err = e, !.status = resp.status, !.body = resp.body]

----------------------------------------------------------------------------
(* The flows: what a flow does with the response to the request it is at *)

CIS2 == "get_access_token_from_mock_cis2"
SEPARATE == "get_access_token_via_user_restricted_flow_separate_auth"
COMBINED == "get_access_token_via_user_restricted_flow_combined_auth"
SIGNED_JWT == "get_access_token_via_signed_jwt_flow"
CachedFunctions == {CIS2, SEPARATE, COMBINED, SIGNED_JWT}

Authenticators == {"KeycloakUserAuthenticator", "AuthorizationCodeAuthenticator",
                   "ClientCredentialsAuthenticator", "TokenExchangeAuthenticator"}

FlowOf(f) ==
    CASE f \in {CIS2, "KeycloakUserAuthenticator"} -> "keycloak"
      [] f \in {COMBINED, "AuthorizationCodeAuthenticator"} -> "authcode"
      [] f \in {SIGNED_JWT, "ClientCredentialsAuthenticator", "TokenExchangeAuthenticator"} -> "jwt"
      [] f = SEPARATE -> "separate"

FirstPc(f) ==
    CASE FlowOf(f) \in {"keycloak", "authcode"} -> "authorize"
      [] FlowOf(f) = "jwt" -> "token"
      [] FlowOf(f) = "separate" -> "start"

\* A frame: a wrapper (with, as history, the cache it was entered with) or the
\* body of a flow, and where it is.
Frame(kind, f, pc, args, kwargs) ==
    [kind |-> kind, f |-> f, pc |-> pc, args |-> args, kwargs |-> kwargs,
     before |-> EmptyMap]

\* The flow that sends the requests: its function, the requests sent with the
\* status each was answered with, the code taken from the redirect, the body
\* of the last response, its outcome.
NoFlow == [f |-> "", sent |-> <<>>, code |-> <<>>, body |-> NoBody, out |-> NoRet]
NewFlow(f) == [NoFlow EXCEPT !.f = f]

\* The result of a step: the next pc of the flow's frame, the code it holds,
\* and its outcome once it has ended.
Go(pc, code) == [pc |-> pc, code |-> code, out |-> NoRet]
End(out) == [pc |-> "done", code |-> <<>>, out |-> out]
Ended(step) == step.out.kind # "none"

\* response.raise_for_status(): HTTPError for 4xx and 5xx
IsHttpError(status) == 400 <= status /\ status < 600

\* resp.json()
JsonOrRaise(resp) ==
    IF resp.body.json THEN Return(resp.body.data) ELSE Raise("JSONDecodeError")

\* GET authorize: _get_authorize_endpoint_response, _get_authorization_form
\* (authcode); login_session.get and get_element_by_id("kc-form-login") (keycloak)
AuthorizeStep(f, resp) ==
    IF FlowOf(f) = "authcode" /\ resp.status # 200
    THEN End(RaiseWith("RuntimeError", resp))
    ELSE IF ~resp.form
    THEN End(Raise(IF FlowOf(f) = "authcode" THEN "IndexError" ELSE "KeyError"))
    ELSE Go("submit", <<>>)

\* the login submission and the code taken from the last redirect
SubmitStep(f, resp) ==
    IF ~resp.history THEN End(Raise("IndexError"))
    ELSE IF resp.codes = <<>> THEN End(Raise("KeyError"))
    ELSE Go("token", IF FlowOf(f) = "authcode" THEN <<resp.codes[1]>> ELSE resp.codes)

\* A token step that applies raise_for_status() in the client-credentials flow
\* too; C10 tells it from the comparison with 200.
TokenStepRaiseForStatus(f, resp) ==
    IF FlowOf(f) # "keycloak" /\ IsHttpError(resp.status)
    THEN End(RaiseWith(IF FlowOf(f) = "jwt" THEN "RuntimeError" ELSE "HTTPError", resp))
    ELSE End(JsonOrRaise(resp))

\* POST token
TokenStep(f, resp) ==
    CASE FlowOf(f) = "authcode" ->
            IF IsHttpError(resp.status)
            THEN End(RaiseWith("HTTPError", resp))
            ELSE End(JsonOrRaise(resp))
      [] FlowOf(f) = "keycloak" -> End(JsonOrRaise(resp))
      [] FlowOf(f) = "jwt" ->
            IF resp.status # 200
            THEN End(RaiseWith("RuntimeError", resp))
            ELSE End(JsonOrRaise(resp))

----------------------------------------------------------------------------
(* cache_tokens: the cached wrapper, and the calls one flow makes of another *)

\* _CACHES[func_name], created empty on first use
CacheOf(cs, f) == IF f \in DOMAIN cs THEN cs[f] ELSE EmptyMap

\* history record of a completed call
CallRecord(f, cached, key, t, before, got, nfetch, out) ==
    [f |-> f, cached |-> cached, key |-> key, at |-> t, before |-> before, got |-> got,
     nfetch |-> nfetch, out |-> out]

Top(c) == c.stack[Len(c.stack)]
Rest(c) == SubSeq(c.stack, 1, Len(c.stack) - 1)

\* wrapper, up to the call of f: the lookup, and the return of a cache hit
WrapperEnter(c, t) ==
    LET top == Top(c)
        key == CacheKey(top.args, top.kwargs)
        before == CacheOf(c.caches, top.f)
        g == CacheGet(before, key, t)
        cs == (top.f :> g.cache) @@ c.caches
        bs == (top.f :> [x \in DOMAIN g.cache |-> CacheOf(c.born, top.f)[x]]) @@ c.born
    IN IF g.raised
       THEN [c EXCEPT !.stack = Rest(c), !.ret = Raise("KeyError"),
                      !.caches = cs, !.born = bs,
                      !.calls = Append(@, CallRecord(top.f, TRUE, key, t, before, None, 0,
                                                     Raise("KeyError")))]
       ELSE IF Truthy(g.value)
       THEN [c EXCEPT !.stack = Rest(c), !.ret = Return(g.value),
                      !.caches = cs, !.born = bs,
                      !.calls = Append(@, CallRecord(top.f, TRUE, key, t, before, g.value, 0,
                                                     Return(g.value)))]
       ELSE [c EXCEPT !.stack = Rest(c) \o <<[top EXCEPT !.pc = "fetch", !.before = before],
                                             Frame("flow", top.f, FirstPc(top.f),
                                                   top.args, top.kwargs)>>,
                      !.flow = IF FlowOf(top.f) = "separate" THEN @ ELSE NewFlow(top.f),
                      !.caches = cs, !.born = bs]

\* A wrapper that inserts before it looks at how f ended; C6 tells it from the
\* wrapper, which inserts only what f returned.
WrapperExitInsertFirst(c, t) ==
    LET top == Top(c)
        key == CacheKey(top.args, top.kwargs)
        data == IF c.ret.kind = "return" THEN InsertData(c.ret.value, t) ELSE EmptyMap
        out == IF c.ret.kind = "return" THEN Return(data) ELSE c.ret
    IN [c EXCEPT !.stack = Rest(c), !.ret = out,
                 !.caches = (top.f :> ((key :> data) @@ CacheOf(c.caches, top.f))) @@ @,
                 !.born = (top.f :> ((key :> t) @@ CacheOf(c.born, top.f))) @@ @,
                 !.calls = Append(@, CallRecord(top.f, TRUE, key, t, top.before,
                                                None, 1, out))]

\* wrapper, after f: insert and return what f returned, or let its exception pass
WrapperExit(c, t) ==
    LET top == Top(c)
        key == CacheKey(top.args, top.kwargs)
    IN IF c.ret.kind = "return"
       THEN LET data == InsertData(c.ret.value, t)
                out == Return(data)
            IN [c EXCEPT !.stack = Rest(c), !.ret = out,
                         !.caches = (top.f :> CacheInsert(CacheOf(c.caches, top.f), key,
                                                          c.ret.value, t)) @@ @,
                         !.born = (top.f :> ((key :> t) @@ CacheOf(c.born, top.f))) @@ @,
                         !.calls = Append(@, CallRecord(top.f, TRUE, key, t, top.before,
                                                        None, 1, out))]
       ELSE [c EXCEPT !.stack = Rest(c),
                      !.calls = Append(@, CallRecord(top.f, TRUE, key, t, top.before,
                                                     None, 1, c.ret))]

\* get_access_token_via_user_restricted_flow_separate_auth, first call:
\* get_access_token_from_mock_cis2 with the cis2 credentials and the login form
SeparateStart(c) ==
    LET top == Top(c)
        kc == DictGet(top.args[2], "cis2")
    IN [c EXCEPT !.stack = Rest(c) \o
            <<[top EXCEPT !.pc = "cis2"],
              Frame("wrapper", CIS2, "enter",
                    <<DictGet(kc, "client_id"), DictGet(kc, "client_secret"),
                      DictGet(kc, "redirect_uri"), top.args[3]>>, <<>>)>>]

\* ... second call: get_access_token_via_signed_jwt_flow with the id_token
SeparateExchange(c) ==
    LET top == Top(c) IN
    IF c.ret.kind = "raise"
    THEN [c EXCEPT !.stack = Rest(c)]
    ELSE IF "id_token" \notin DOMAIN c.ret.value
    THEN [c EXCEPT !.stack = Rest(c), !.ret = Raise("KeyError")]
    ELSE [c EXCEPT !.ret = NoRet,
                   !.stack = Rest(c) \o
            <<[top EXCEPT !.pc = "jwt"],
              Frame("wrapper", SIGNED_JWT, "enter",
                    <<top.args[1], top.args[4], top.args[5], top.args[6]>>,
                    <<<<Str("id_token"), Num(c.ret.value["id_token"])>>>>)>>]

\* ... and its return of the token data, or the exception passing through
SeparateReturn(c) == [c EXCEPT !.stack = Rest(c)]

\* Run the code between two HTTP requests: until the innermost frame is a flow
\* waiting for a response, or the top-level call has returned.
RECURSIVE Settle(_, _)
Settle(c, t) ==
    IF c.stack = <<>> THEN [c EXCEPT !.ret = NoRet]
    ELSE LET top == Top(c) IN
         CASE top.kind = "wrapper" /\ top.pc = "enter" -> Settle(WrapperEnter(c, t), t)
           [] top.kind = "wrapper" /\ top.pc = "fetch" /\ c.ret.kind # "none" ->
                Settle(WrapperExit(c, t), t)
           [] top.kind = "flow" /\ top.pc = "start" -> Settle(SeparateStart(c), t)
           [] top.kind = "flow" /\ top.pc = "cis2" /\ c.ret.kind # "none" ->
                Settle(SeparateExchange(c), t)
           [] top.kind = "flow" /\ top.pc = "jwt" /\ c.ret.kind # "none" ->
                Settle(SeparateReturn(c), t)
           [] OTHER -> c

\* The flow was answered (request req, response resp) and took a step: its frame
\* goes on at the next pc, or the flow ends with its outcome.  The outcome of an
\* authenticator's get_token, which no wrapper records, is recorded here.
AfterStep(c, req, resp, step, t) ==
    LET fl == [c.flow EXCEPT !.sent = Append(@, [req |-> req, status |-> resp.status]),
                             !.code = IF Ended(step) THEN @ ELSE step.code,
                             !.body = resp.body, !.out = step.out]
    IN IF ~Ended(step)
       THEN [c EXCEPT !.stack = Rest(c) \o <<[Top(c) EXCEPT !.pc = step.pc]>>, !.flow = fl]
       ELSE Settle([c EXCEPT !.stack = Rest(c), !.ret = step.out, !.flow = fl,
                             !.calls = IF Len(c.stack) = 1
                                       THEN Append(@, CallRecord(Top(c).f, FALSE, <<>>, t,
                                                                 EmptyMap, None, 1, step.out))
                                       ELSE @], t)

Config ==
    [caches |-> caches, born |-> born, stack |-> stack, ret |-> ret, flow |-> flow,
     calls |-> calls]

Becomes(c) ==
    /\ caches' = c.caches
    /\ born' = c.born
    /\ stack' = c.stack
    /\ ret' = c.ret
    /\ flow' = c.flow
    /\ calls' = c.calls

----------------------------------------------------------------------------
(* Arguments of the calls *)

LoginForm == Dict(<<<<Str("username"), Str("user1")>>>>)
KeycloakCredentials ==
    Dict(<<<<Str("cis2"),
             Dict(<<<<Str("client_id"), Str("kc_client")>>,
                    <<Str("client_secret"), Str("kc_secret")>>,
                    <<Str("redirect_uri"), Str("https://example.org")>>>>)>>>>)

ArgLists(f) ==
    CASE f = SIGNED_JWT ->
            {<<Str("base_url"), Str(cl), Str("private_key"), Str("kid")>> :
                cl \in {"client1", "client2"}}
      [] f = CIS2 ->
            {<<Str("kc_client"), Str("kc_secret"), Str("https://example.org"), LoginForm>>}
      [] f = COMBINED ->
            {<<Str("base_url"), Str("client1"), Str("secret"), Str("callback"),
               Str("nhs-cis2"), LoginForm>>}
      [] f = SEPARATE ->
            {<<Str("base_url"), KeycloakCredentials, LoginForm, Str("client1"),
               Str("private_key"), Str("kid")>>}

----------------------------------------------------------------------------
(* Actions *)

Init ==
    /\ now = Epoch
    /\ ticks = 0
    /\ ncalls = 0
    /\ caches = EmptyMap
    /\ born = EmptyMap
    /\ stack = <<>>
    /\ ret = NoRet
    /\ flow = NoFlow
    /\ calls = <<>>
    /\ probe = <<>>

\* the behaviour ends when its last call has returned
Finished == ncalls = MaxCalls /\ stack = <<>>
Idle == stack = <<>>

\* time passes
Tick ==
    /\ ticks < MaxTicks
    /\ ~Finished
    /\ \E d \in TickSteps : now' = now + d
    /\ ticks' = ticks + 1
    /\ UNCHANGED <<ncalls, caches, born, stack, ret, flow, calls, probe>>

\* a test calls f, one of the cached functions of auth_journey.py
Call(f) ==
    /\ Idle
    /\ ncalls < MaxCalls
    /\ \E args \in ArgLists(f) :
          Becomes(Settle([Config EXCEPT !.calls = <<>>, !.flow = NoFlow,
                                        !.stack = <<Frame("wrapper", f, "enter", args, <<>>)>>],
                         now))
    /\ ncalls' = ncalls + 1
    /\ UNCHANGED <<now, ticks, probe>>

CallSignedJwt == Call(SIGNED_JWT)
CallCombined == Call(COMBINED)

\* a test calls get_token() of an authenticator of identity_service.py
CallAuthenticator ==
    /\ Idle
    /\ ncalls < MaxCalls
    /\ \E a \in Authenticators :
          Becomes([Config EXCEPT !.calls = <<>>, !.flow = NewFlow(a),
                                 !.stack = <<Frame("flow", a, FirstPc(a), <<>>, <<>>)>>])
    /\ ncalls' = ncalls + 1
    /\ UNCHANGED <<now, ticks, probe>>

Waiting(pc) == stack # <<>> /\ stack[Len(stack)].kind = "flow" /\ stack[Len(stack)].pc = pc

\* the authorize endpoint (the Keycloak auth page) answers
GetAuthorize ==
    /\ Waiting("authorize")
    /\ \E resp \in AuthorizeResponses :
          Becomes(AfterStep(Config, "authorize", resp, AuthorizeStep(flow.f, resp), now))
    /\ UNCHANGED <<now, ticks, ncalls, probe>>

\* the login submission is answered
SubmitLogin ==
    /\ Waiting("submit")
    /\ \E resp \in LoginResponses :
          Becomes(AfterStep(Config, "submit", resp, SubmitStep(flow.f, resp), now))
    /\ UNCHANGED <<now, ticks, ncalls, probe>>

\* No server issues the same token twice: a token is numbered by the top-level
\* call it is issued in, the identity provider's before the identity service's.
TokenNumber(f) == 2 * ncalls - (IF FlowOf(f) = "keycloak" THEN 1 ELSE 0)

\* the token endpoint answers; a 200 answer is a newly issued token
PostToken ==
    /\ Waiting("token")
    /\ \E resp \in TokenResponses(now, TokenNumber(flow.f), FlowOf(flow.f) = "keycloak") :
          Becomes(AfterStep(Config, "token", resp, TokenStep(flow.f, resp), now))
    /\ UNCHANGED <<now, ticks, ncalls, probe>>

\* The cache under a moving clock: the signed-JWT flow and the combined-auth
\* flow through their wrappers.
Next == Tick \/ CallSignedJwt \/ CallCombined \/ GetAuthorize \/ SubmitLogin \/ PostToken

Spec == Init /\ [][Next]_vars

\* Every flow, cached and not, at one instant.
FlowCall == \E f \in CachedFunctions : Call(f)

FlowNext == FlowCall \/ CallAuthenticator \/ GetAuthorize \/ SubmitLogin \/ PostToken

FlowSpec == Init /\ [][FlowNext]_vars

----------------------------------------------------------------------------
(* Vocabulary of the properties *)

Ok2xx(status) == 200 <= status /\ status < 300
LastOf(seq) == seq[Len(seq)]
HasToken(v) == v # None /\ "expires_in" \in DOMAIN v

\* this step starts a top-level call of a cached function
StartsCachedCall ==
    /\ ncalls' = ncalls + 1
    /\ IF stack' # <<>> THEN stack'[1].kind = "wrapper" ELSE calls'[1].cached
StartedF == IF stack' # <<>> THEN stack'[1].f ELSE calls'[1].f
StartedKey ==
    IF stack' # <<>> THEN CacheKey(stack'[1].args, stack'[1].kwargs) ELSE calls'[1].key

\* the call this step starts is served from the cache: it returns v, f is not called
HitWith(v) ==
    /\ stack' = <<>>
    /\ Len(calls') = 1
    /\ calls'[1].nfetch = 0
    /\ calls'[1].out = Return(v)

\* the call this step starts calls f: the body of f is waiting for its first response
Fetches ==
    /\ Len(stack') = 2
    /\ stack'[2].kind = "flow"
    /\ stack'[2].f = stack'[1].f
    /\ calls' = <<>>

\* the top-level call before this step was a call of f with this key, which
\* called f and returned what f returned
PrevFetched(f, key) ==
    /\ Idle /\ calls # <<>>
    /\ LastOf(calls).cached /\ LastOf(calls).f = f /\ LastOf(calls).key = key
    /\ LastOf(calls).nfetch = 1 /\ LastOf(calls).out.kind = "return"

----------------------------------------------------------------------------
(* C1 *)

\* C1, as stated: of two successive calls of a cached wrapper with the same
\* arguments, the first fetching successfully, the second is served from the
\* cache (f is called once in total) and returns the payload the first returned.
C1_TwoCallsOneFetch ==
    [][(StartsCachedCall /\ PrevFetched(StartedF, StartedKey))
          => HitWith(LastOf(calls).out.value)]_vars

\* C1, amended: ... provided the first call returned a token payload and the
\* second call is made while get() holds it unexpired, that is while
\* int(now) + 5 <= int(issued_at) + 1000 * int(expires_in).
C1_TwoCallsOneFetchWhileUnexpired ==
    [][(/\ StartsCachedCall
        /\ PrevFetched(StartedF, StartedKey)
        /\ HasToken(LastOf(calls).out.value)
        /\ ~Expired(LastOf(calls).out.value, now))
          => HitWith(LastOf(calls).out.value)]_vars

\* the second of two calls has been served from the cache
C1_Witness ==
    /\ Idle /\ ncalls = 2 /\ Len(calls) = 1
    /\ calls[1].cached /\ calls[1].nfetch = 0 /\ calls[1].out.kind = "return"

----------------------------------------------------------------------------
(* C2 *)

\* C2: get() returns an entry only while the token is really unexpired at
\* lookup time plus the grace period: for a token fetched at t0 (seconds) with
\* lifetime expires_in, a lookup at time now hits only if
\* now + grace <= t0 + expires_in.
C2_NoExpiredEntryReturned ==
    \A i \in 1..Len(calls) :
        (calls[i].cached /\ calls[i].got # None)
            => calls[i].at + grace_period_seconds
                   <= born[calls[i].f][calls[i].key] + calls[i].got["expires_in"]

----------------------------------------------------------------------------
(* C3 *)

\* the cache of f holds, for key, a payload that came without issued_at and
\* with expires_in = 600
HoldsClientCredentialsToken(f, key) ==
    /\ f \in DOMAIN caches
    /\ key \in DOMAIN caches[f]
    /\ HasToken(caches[f][key])
    /\ caches[f][key]["expires_in"] = 600
    /\ caches[f][key]["issued_at"] = born[f][key] - SynthesizedAge

\* C3: with such a payload cached, a call with the same arguments within 600
\* seconds of the fetch returns the identical object without calling f, and a
\* call made once the clock is past fetch time + 600 seconds calls f again.
C3_ClientCredentialsScenario ==
    [][(StartsCachedCall /\ HoldsClientCredentialsToken(StartedF, StartedKey))
          => IF now <= born[StartedF][StartedKey] + 600
             THEN HitWith(caches[StartedF][StartedKey])
             ELSE Fetches]_vars

----------------------------------------------------------------------------
(* C4 *)

\* the cache of f holds, for key, a token whose issued_at is in milliseconds
HoldsStampedToken(f, key) ==
    /\ f \in DOMAIN caches
    /\ key \in DOMAIN caches[f]
    /\ HasToken(caches[f][key])
    /\ caches[f][key]["issued_at"] = MsFactor * born[f][key]

\* C4: for an entry with issued_at = T (ms) and expires_in = E (s), a lookup at
\* T/1000 + E - grace - 1 seconds returns the cached token, and a lookup at
\* T/1000 + E + 1 seconds is a miss that removes the entry.
C4_ExpiryCorrectness ==
    [][(StartsCachedCall /\ HoldsStampedToken(StartedF, StartedKey))
          => LET e == caches[StartedF][StartedKey]
                 T == e["issued_at"]
                 E == e["expires_in"]
             IN  /\ now = (T \div MsFactor) + E - grace_period_seconds - 1
                        => HitWith(e)
                 /\ now = (T \div MsFactor) + E + 1
                        => Fetches /\ StartedKey \notin DOMAIN caches'[StartedF]]_vars

----------------------------------------------------------------------------
(* C6 *)

RaisedInFetch(r) == r.cached /\ r.nfetch = 1 /\ r.out.kind = "raise"

\* C6: when the wrapped function raises, the wrapper raises the same exception
\* and the cache of the function is what it was before the call, less the
\* looked-up key if its entry had expired; nothing is inserted for the key.
C6_RaiseLeavesCacheAlone ==
    \A i \in 1..Len(calls) :
        RaisedInFetch(calls[i]) =>
            /\ caches[calls[i].f] = MapRemove(calls[i].before, calls[i].key)
            /\ calls[i].key \in DOMAIN calls[i].before
                   => Expired(calls[i].before[calls[i].key], calls[i].at)
            /\ flow.f = calls[i].f /\ calls[i].out = flow.out

\* an expired entry was evicted and the fetch that followed raised
C6_Witness ==
    \E i \in 1..Len(calls) :
        /\ RaisedInFetch(calls[i])
        /\ calls[i].key \in DOMAIN calls[i].before

----------------------------------------------------------------------------
(* C5 *)

\* the body of a cached function has ended on a token response that is not 2xx
TokenRequestFailed ==
    /\ flow.f \in CachedFunctions
    /\ Ended(flow)
    /\ flow.sent # <<>>
    /\ LastOf(flow.sent).req = "token"
    /\ ~Ok2xx(LastOf(flow.sent).status)

\* the record of the call of flow.f that ran the body
FetchRecords == {i \in 1..Len(calls) : calls[i].cached /\ calls[i].f = flow.f
                                          /\ calls[i].nfetch = 1}

FailedFetchNotCached ==
    TokenRequestFailed =>
        \A i \in FetchRecords : calls[i].key \notin DOMAIN caches[flow.f]

\* C5: for each cached flow, a fetch whose token response has a non-success
\* status puts no entry in the cache: afterwards the cache has no entry for the
\* key, and the next call with the same arguments fetches again.
C5_FailedFetchNeverCached ==
    [][/\ FailedFetchNotCached'
       /\ (/\ StartsCachedCall
           /\ Idle /\ TokenRequestFailed
           /\ StartedF = flow.f
           /\ \E i \in FetchRecords : calls[i].key = StartedKey)
              => stack' # <<>>]_vars

----------------------------------------------------------------------------
(* C7, C8, C9 *)

InFlow(kind) == flow.f # "" /\ FlowOf(flow.f) = kind
Requests == [i \in 1..Len(flow.sent) |-> flow.sent[i].req]
IsPrefix(xs, ys) == Len(xs) <= Len(ys) /\ \A i \in 1..Len(xs) : xs[i] = ys[i]

\* C7: in the authorization-code flow a response that is not 2xx, at any of
\* the three steps, makes the call fail, and no later request follows it.
C7_AuthCodeStopsAtFailure ==
    InFlow("authcode") =>
        \A i \in 1..Len(flow.sent) :
            ~Ok2xx(flow.sent[i].status)
                => i = Len(flow.sent) /\ flow.out.kind = "raise"

\* C8: in the Keycloak login flow a response that is not 2xx, from the auth
\* page, the login submission or the token request, surfaces as an exception:
\* the call never returns after one.
C8_KeycloakFailureRaises ==
    (InFlow("keycloak") /\ Ended(flow))
        => ((\E i \in 1..Len(flow.sent) : ~Ok2xx(flow.sent[i].status))
               => flow.out.kind = "raise")

\* C9: within one call of the authorization-code flow the requests go out in
\* the order authorize, submit, token, each at most once, the token POST only
\* with an authorization code taken from the redirect, and nothing is sent
\* after an HTTP error.
C9_AuthCodeStepOrder ==
    InFlow("authcode") =>
        /\ IsPrefix(Requests, <<"authorize", "submit", "token">>)
        /\ Len(flow.sent) = 3 => Len(flow.code) = 1
        /\ \A i \in 1..(Len(flow.sent) - 1) : ~IsHttpError(flow.sent[i].status)

----------------------------------------------------------------------------
(* C10 *)

----------------------------------------------------------------------------
(* The cache key: calls of the cached functions that differ in how their      *)
(* arguments are written, answered by servers that issue tokens               *)

\* a call f(*args, **kwargs) as the caller wrote it
Request(f, args, kwargs) == [f |-> f, args |-> args, kwargs |-> kwargs]

\* the login form given as a tuple of key/value pairs instead of a dict
LoginFormPairs == Tup(<<Tup(<<Str("username"), Str("user1")>>)>>)
OtherLoginForm == Dict(<<<<Str("username"), Str("user2")>>>>)
\* the Keycloak credentials with the keys of the inner dict in another order
KeycloakCredentialsReordered ==
    Dict(<<<<Str("cis2"),
             Dict(<<<<Str("redirect_uri"), Str("https://example.org")>>,
                    <<Str("client_secret"), Str("kc_secret")>>,
                    <<Str("client_id"), Str("kc_client")>>>>)>>>>)

MockCis2Args(form) == <<Str("kc_other"), Str("kc_secret"), Str("https://example.org"), form>>
SignedJwtArgs == <<Str("base_url"), Str("client1"), Str("private_key")>>

KeyRequests ==
    {Request(CIS2, MockCis2Args(form), <<>>) :
        form \in {LoginForm, LoginFormPairs, OtherLoginForm}}
    \cup {Request(SIGNED_JWT, MockCis2Args(LoginForm), <<>>)}
    \cup {Request(SIGNED_JWT, SignedJwtArgs, kw) :
            kw \in {<<<<Str("jwt_kid"), Str("kid")>>, <<Str("id_token"), Num(7)>>>>,
                    <<<<Str("id_token"), Num(7)>>, <<Str("jwt_kid"), Str("kid")>>>>,
                    <<<<Str("jwt_kid"), Str("kid")>>, <<Str("id_token"), Num(8)>>>>}}
    \cup {Request(SEPARATE, <<Str("base_url"), kc, LoginForm, Str("client1"),
                              Str("private_key"), Str("kid")>>, <<>>) :
            kc \in {KeycloakCredentials, KeycloakCredentialsReordered}}

\* a cached function is called
KeyCall ==
    /\ Idle
    /\ ncalls < MaxCalls
    /\ \E r \in KeyRequests :
          /\ Becomes(Settle([Config EXCEPT
                 !.calls = <<>>, !.flow = NoFlow,
                 !.stack = <<Frame("wrapper", r.f, "enter", r.args, r.kwargs)>>], now))
          /\ probe' = Append(probe, r)
    /\ ncalls' = ncalls + 1
    /\ UNCHANGED <<now, ticks>>

\* the servers answer as they do when all is well: the page with its form, the
\* redirect with one code, a token valid for ten minutes
GoodAuthorize == {r \in AuthorizeResponses : r.status = 200 /\ r.form}
GoodLogin == {r \in LoginResponses : r.status = 200 /\ r.history /\ Len(r.codes) = 1}
GoodToken(f) ==
    {r \in TokenResponses(now, TokenNumber(f), FlowOf(f) = "keycloak") :
        /\ r.status = 200
        /\ r.body.data["expires_in"] = 600
        /\ "issued_at" \notin DOMAIN r.body.data}

KeyAnswer ==
    /\ stack # <<>> /\ Top(Config).kind = "flow"
    /\ LET pc == Top(Config).pc
       IN CASE pc = "authorize" ->
                 \E resp \in GoodAuthorize :
                    Becomes(AfterStep(Config, pc, resp, AuthorizeStep(flow.f, resp), now))
            [] pc = "submit" ->
                 \E resp \in GoodLogin :
                    Becomes(AfterStep(Config, pc, resp, SubmitStep(flow.f, resp), now))
            [] pc = "token" ->
                 \E resp \in GoodToken(flow.f) :
                    Becomes(AfterStep(Config, pc, resp, TokenStep(flow.f, resp), now))
    /\ UNCHANGED <<now, ticks, ncalls, probe>>

KeyNext == KeyCall \/ KeyAnswer

KeySpec == Init /\ [][KeyNext]_vars

----------------------------------------------------------------------------
(* C11, C12 *)

\* What a Python value is, apart from how it was written: a dict is the
\* mapping of its keys, whatever their order; a tuple is its elements in order.
RECURSIVE AsValue(_)
AsValue(v) ==
    IF v.k = "dict"
    THEN [k |-> "dict",
          v |-> [n \in {v.s[i][1].n : i \in 1..Len(v.s)} |-> AsValue(ItemsGet(v.s, n))]]
    ELSE IF v.k = "tuple"
    THEN [k |-> "tuple", v |-> [i \in 1..Len(v.s) |-> AsValue(v.s[i])]]
    ELSE [k |-> v.k, v |-> v]

\* the same function called with the same argument values
SameCall(r1, r2) ==
    /\ r1.f = r2.f
    /\ AsValue(Tup(r1.args)) = AsValue(Tup(r2.args))
    /\ AsValue(Dict(r1.kwargs)) = AsValue(Dict(r2.kwargs))

\* the two calls resolve to the same entry: the same cache, the same key
SameEntry(r1, r2) ==
    r1.f = r2.f /\ CacheKey(r1.args, r1.kwargs) = CacheKey(r2.args, r2.kwargs)

\* the last call made has returned, and was served from the cache
LastCallHit ==
    /\ Idle /\ probe # <<>> /\ calls # <<>>
    /\ LastOf(calls).f = LastOf(probe).f
    /\ LastOf(calls).nfetch = 0 /\ LastOf(calls).out.kind = "return"

MadeBefore == \E m \in 1..(Len(probe) - 1) : SameCall(probe[m], LastOf(probe))

\* C11: two calls that differ in the decorated function, or in the value of a
\* positional or keyword argument (a dict is not a tuple of key/value pairs),
\* never resolve to the same cache entry, and a call is never served the token
\* fetched for a different call.
C11_DistinctCallsDistinctEntries ==
    /\ \A i, j \in 1..Len(probe) :
          ~SameCall(probe[i], probe[j]) => ~SameEntry(probe[i], probe[j])
    /\ LastCallHit => MadeBefore

\* C12: the cache key does not depend on the order of the keyword arguments
\* nor on the order of the keys of a dict argument, at any depth: calls that
\* differ only in these orders have the same key, and the second is a hit.
C12_KeyIndependentOfOrder ==
    /\ \A i, j \in 1..Len(probe) :
          SameCall(probe[i], probe[j]) => SameEntry(probe[i], probe[j])
    /\ (Idle /\ probe # <<>> /\ MadeBefore) => LastCallHit

\* a call was served the token of an earlier call written in another order
C12_Witness ==
    /\ LastCallHit
    /\ \E m \in 1..(Len(probe) - 1) :
          SameCall(probe[m], LastOf(probe)) /\ probe[m] # LastOf(probe)

----------------------------------------------------------------------------
(* C13 *)

\* the call that last completed fetched a payload that came without issued_at,
\* and insert stored it
StoredWithoutIssuedAt ==
    /\ calls # <<>>
    /\ LastOf(calls).cached /\ LastOf(calls).nfetch = 1
    /\ LastOf(calls).out.kind = "return"
    /\ LastOf(calls).f = flow.f
    /\ flow.body.json /\ HasToken(flow.body.data)
    /\ "issued_at" \notin DOMAIN flow.body.data

\* C13: the issued_at that insert stores for a payload without one is an
\* instant shortly before the insertion, in epoch milliseconds, so that get()
\* never serves the entry later than insertion time + expires_in seconds.
C13_SynthesizedIssuedAt ==
    StoredWithoutIssuedAt =>
        LET stored == LastOf(calls).out.value
            t == LastOf(calls).at
        IN  /\ stored["issued_at"] <= MsFactor * t
            /\ MsFactor * t - stored["issued_at"] <= MsFactor * SynthesizedAge
            /\ Expired(stored, t + stored["expires_in"] + 1)

----------------------------------------------------------------------------
(* The login payload: get_authorize_form_submission_data on its own *)

MaxInputs == 2      \* <input> elements in the form

\* dict(_input.items()): the attributes of an <input> element; a login field
\* may come without a value, a submit button without a name
InputElements ==
    {[name |-> n, value |-> v] : n \in {"username", "csrf"}, v \in {"default", "xyz"}}
    \cup {[name |-> n] : n \in {"username", "csrf"}}
    \cup {[value |-> "Login"]}
Forms == UNION {[1..n -> InputElements] : n \in 0..MaxInputs}
\* login_options: the values the caller gives
LoginOptions == UNION {[ks -> {"other"}] : ks \in SUBSET {"username", "state"}}

\* the for loop: form_submission_data[name] = value, input after input
RECURSIVE CollectDefaults(_, _)
CollectDefaults(inputs, data) ==
    IF inputs = <<>> THEN Return(data)
    ELSE IF {"name", "value"} \subseteq DOMAIN Head(inputs)
    THEN CollectDefaults(Tail(inputs),
                         (Head(inputs)["name"] :> Head(inputs)["value"]) @@ data)
    ELSE Raise("KeyError")

\* form_submission_data.update(login_options)
DictUpdate(data, other) == other @@ data

get_authorize_form_submission_data(inputs, login_options) ==
    LET defaults == CollectDefaults(inputs, EmptyMap)
    IN IF defaults.kind = "raise" THEN defaults
       ELSE Return(DictUpdate(defaults.value, login_options))

FormInit ==
    /\ Init!1 /\ Init!2 /\ Init!3 /\ Init!4 /\ Init!5
    /\ Init!6 /\ Init!7 /\ Init!8 /\ Init!9
    /\ \E inputs \in Forms, options \in LoginOptions :
          probe = [inputs |-> inputs, login_options |-> options, out |-> NoRet]

BuildPayload ==
    /\ probe.out = NoRet
    /\ probe' = [probe EXCEPT !.out =
                    get_authorize_form_submission_data(probe.inputs, probe.login_options)]
    /\ UNCHANGED <<now, ticks, ncalls, caches, born, stack, ret, flow, calls>>

FormSpec == FormInit /\ [][BuildPayload]_vars

\* C14: the payload built from a form and the caller's overrides contains
\* every pre-populated input name/value of the form and every override key,
\* and where a key is in both the override wins.
C14_OverridesWin ==
    probe.out.kind = "return" =>
        LET payload == probe.out.value
        IN  /\ \A i \in 1..Len(probe.inputs) :
                 LET name == probe.inputs[i]["name"]
                 IN /\ name \in DOMAIN payload
                    /\ name \notin DOMAIN probe.login_options
                          => payload[name] = probe.inputs[i]["value"]
            /\ \A key \in DOMAIN probe.login_options :
                 key \in DOMAIN payload /\ payload[key] = probe.login_options[key]

----------------------------------------------------------------------------
(* The authorization code: the login flows with redirects that carry the     *)
(* code parameter no, one or several times                                    *)

LoginFlows == {f \in CachedFunctions \cup Authenticators :
                  FlowOf(f) \in {"authcode", "keycloak"}}

\* parse_qs(query)["code"] of the last redirect: the values in their order
CodeLists == {<<>>, <<"c1">>, <<"c1", "c2">>, <<"c2", "c1">>}
RedirectResponses ==
    [status : {200}, history : {TRUE}, codes : CodeLists, body : {HtmlBody}]

\* a login flow is called, through its wrapper if it has one
CodeCall ==
    /\ Idle
    /\ ncalls < MaxCalls
    /\ \E f \in LoginFlows :
          IF f \in CachedFunctions
          THEN \E args \in ArgLists(f) :
                  Becomes(Settle([Config EXCEPT
                      !.calls = <<>>, !.flow = NoFlow,
                      !.stack = <<Frame("wrapper", f, "enter", args, <<>>)>>], now))
          ELSE Becomes([Config EXCEPT
                      !.calls = <<>>, !.flow = NewFlow(f),
                      !.stack = <<Frame("flow", f, FirstPc(f), <<>>, <<>>)>>])
    /\ ncalls' = ncalls + 1
    /\ probe' = <<>>
    /\ UNCHANGED <<now, ticks>>

\* the servers answer; probe keeps the codes of the redirect
CodeAnswer ==
    /\ stack # <<>> /\ Top(Config).kind = "flow"
    /\ LET pc == Top(Config).pc
       IN CASE pc = "authorize" ->
                 /\ \E resp \in GoodAuthorize :
                       Becomes(AfterStep(Config, pc, resp, AuthorizeStep(flow.f, resp), now))
                 /\ probe' = probe
            [] pc = "submit" ->
                 \E resp \in RedirectResponses :
                    /\ Becomes(AfterStep(Config, pc, resp, SubmitStep(flow.f, resp), now))
                    /\ probe' = [codes |-> resp.codes]
            [] pc = "token" ->
                 /\ \E resp \in GoodToken(flow.f) :
                       Becomes(AfterStep(Config, pc, resp, TokenStep(flow.f, resp), now))
                 /\ probe' = probe
    /\ UNCHANGED <<now, ticks, ncalls>>

CodeNext == CodeCall \/ CodeAnswer

CodeSpec == Init /\ [][CodeNext]_vars

\* the token request of a login flow is about to be sent, or was sent
TokenRequestMade ==
    /\ flow.f \in LoginFlows
    /\ \/ Waiting("token")
       \/ flow.sent # <<>> /\ LastOf(flow.sent).req = "token"

\* C15: the code sent to the token endpoint is the first occurrence of the
\* code parameter in the Location of the last redirect, also when it occurs
\* several times; exactly one value is sent.
C15_FirstCodeOnly ==
    TokenRequestMade => probe.codes # <<>> /\ flow.code = <<probe.codes[1]>>

----------------------------------------------------------------------------
(* The client assertion: encode_jwt on its own, under a moving clock *)

AssertionLifetime == 300      \* "exp": int(time()) + 300

\* ClientCredentialsConfig: what the assertion is built from
JwtConfigs ==
    {[client_id |-> "client1", jwt_kid |-> "kid1", jwt_private_key |-> "key1",
      identity_service_base_url |-> "https://internal-dev.api.service.nhs.uk/oauth2-mock"],
     [client_id |-> "client2", jwt_kid |-> "kid1", jwt_private_key |-> "key1",
      identity_service_base_url |-> "https://internal-dev.api.service.nhs.uk/oauth2-mock"],
     [client_id |-> "client1", jwt_kid |-> "kid2", jwt_private_key |-> "key2",
      identity_service_base_url |-> "https://int.api.service.nhs.uk/oauth2-mock"]}

\* f"{base_url}/token"
TokenUrl(base_url) == [base |-> base_url, path |-> "/token"]

\* str(uuid.uuid4()): the n-th value drawn in the process; uuid4 does not
\* repeat itself
uuid4(n) == n

\* An assertion whose jti is made from the client id.
encode_jwt_fixed_jti(config, t, n) ==
    [headers |-> [kid |-> config.jwt_kid, alg |-> "RS512"],
     claims |-> [sub |-> config.client_id, iss |-> config.client_id,
                 jti |-> config.client_id,
                 aud |-> TokenUrl(config.identity_service_base_url),
                 exp |-> t + AssertionLifetime],
     signed_with |-> config.jwt_private_key]

\* encode_jwt at time t, as the n-th assertion of the process: the headers and
\* claims handed to jwt.encode, and the key it signs with
encode_jwt(config, t, n) ==
    [headers |-> [kid |-> config.jwt_kid, alg |-> "RS512"],
     claims |-> [sub |-> config.client_id, iss |-> config.client_id,
                 jti |-> uuid4(n),
                 aud |-> TokenUrl(config.identity_service_base_url),
                 exp |-> t + AssertionLifetime],
     signed_with |-> config.jwt_private_key]

\* an assertion is built; probe keeps what it was built from, when, and the
\* assertion
BuildAssertion ==
    /\ Idle
    /\ ncalls < MaxCalls
    /\ \E config \in JwtConfigs :
          probe' = Append(probe, [config |-> config, at |-> now,
                                  jwt |-> encode_jwt(config, now, ncalls + 1)])
    /\ ncalls' = ncalls + 1
    /\ UNCHANGED <<now, ticks, caches, born, stack, ret, flow, calls>>

JwtNext == Tick \/ BuildAssertion

JwtSpec == Init /\ [][JwtNext]_vars

\* C16: every client assertion has sub = iss = the configured client_id,
\* aud = the token endpoint URL, exp = build time + 300 seconds, header kid =
\* the configured key id, and a jti that no other assertion of the process has.
C16_AssertionClaims ==
    \A i \in 1..Len(probe) :
        LET a == probe[i]
        IN  /\ a.jwt.claims.sub = a.config.client_id
            /\ a.jwt.claims.iss = a.config.client_id
            /\ a.jwt.claims.aud = TokenUrl(a.config.identity_service_base_url)
            /\ a.jwt.claims.exp = a.at + 300
            /\ a.jwt.headers.kid = a.config.jwt_kid
            /\ \A j \in 1..Len(probe) : j # i => probe[j].jwt.claims.jti # a.jwt.claims.jti

\* two assertions were built for one client at different times
C16_Witness ==
    /\ Len(probe) >= 2
    /\ probe[1].config = probe[2].config
    /\ probe[1].at < probe[2].at

----------------------------------------------------------------------------
(* Separate auth: the identity provider's answer and the grant that follows *)

\* an id_token that is the empty string: false where Python asks `if id_token`
EmptyIdToken == 0

\* `if id_token:` for the id_token keyword of the signed-JWT function, which
\* defaults to None
IdTokenGiven(kwargs) ==
    \E i \in 1..Len(kwargs) :
        kwargs[i][1] = Str("id_token") /\ kwargs[i][2] # Num(EmptyIdToken)

\* A request body that is a token exchange whenever the keyword was passed.
signed_jwt_data_if_passed(kwargs) ==
    IF \E i \in 1..Len(kwargs) : kwargs[i][1] = Str("id_token")
    THEN [grant_type |-> "urn:ietf:params:oauth:grant-type:token-exchange",
          subject_token |-> ItemsGet(kwargs, "id_token")]
    ELSE [grant_type |-> "client_credentials", subject_token |-> None]

\* data of the POST to the main token endpoint
signed_jwt_data(kwargs) ==
    IF IdTokenGiven(kwargs)
    THEN [grant_type |-> "urn:ietf:params:oauth:grant-type:token-exchange",
          subject_token |-> ItemsGet(kwargs, "id_token")]
    ELSE [grant_type |-> "client_credentials", subject_token |-> None]

CallSeparate == Call(SEPARATE)

\* the identity provider answers 200 with tokens among which the id_token is empty
PostTokenEmptyIdToken ==
    /\ Waiting("token")
    /\ FlowOf(flow.f) = "keycloak"
    /\ \E resp \in TokenResponses(now, TokenNumber(flow.f), FALSE) :
          /\ resp.status = 200
          /\ LET empty == [resp EXCEPT !.body.data = @ @@ ("id_token" :> EmptyIdToken)]
             IN Becomes(AfterStep(Config, "token", empty, TokenStep(flow.f, empty), now))
    /\ UNCHANGED <<now, ticks, ncalls, probe>>

SeparateNext ==
    CallSeparate \/ GetAuthorize \/ SubmitLogin \/ PostToken \/ PostTokenEmptyIdToken

SeparateSpec == Init /\ [][SeparateNext]_vars

\* separate auth is at its request to the main token endpoint
MainTokenRequest ==
    /\ stack # <<>> /\ stack[1].f = SEPARATE
    /\ Waiting("token") /\ Top(Config).f = SIGNED_JWT

\* C17: in separate auth the identity-provider login has completed and given
\* an id_token before the main token endpoint is asked, and that request is a
\* token exchange with that id_token as subject_token, never a
\* client_credentials grant, whatever the identity provider returned.
C17_SeparateAuthExchangesIdToken ==
    MainTokenRequest =>
        /\ calls # <<>> /\ calls[1].f = CIS2 /\ calls[1].out.kind = "return"
        /\ "id_token" \in DOMAIN calls[1].out.value
        /\ signed_jwt_data(Top(Config).kwargs).grant_type
               = "urn:ietf:params:oauth:grant-type:token-exchange"
        /\ signed_jwt_data(Top(Config).kwargs).subject_token
               = Num(calls[1].out.value["id_token"])

----------------------------------------------------------------------------
(* The key pairs: create_jwt_key_pair under lru_cache *)

MaxKeyCalls == 4      \* calls of create_jwt_key_pair per behaviour
KeyIds == {"kid1", "kid2", "kid3"}

\* the body of create_jwt_key_pair, RSA.generate giving the n-th key of the
\* process: the PEMs of that key and its JWK
create_jwt_key_pair(key_id, n) ==
    [public_key_pem |-> <<"public", n>>,
     private_key_pem |-> <<"private", n>>,
     json_web_key |-> [keys |-> <<[kty |-> "RSA", alg |-> "RS512",
                                   key |-> <<"public", n>>,
                                   kid |-> key_id, use |-> "sig"]>>]]

\* A decorator that keeps nothing: every call runs the body.
lru_cache_off(memo, key_id, n) ==
    [memo |-> memo, value |-> create_jwt_key_pair(key_id, n), ran |-> TRUE]

\* lru_cache(maxsize=None) around the body: the memo afterwards, the value
\* returned, and whether the body ran
lru_cache(memo, key_id, n) ==
    IF key_id \in DOMAIN memo
    THEN [memo |-> memo, value |-> memo[key_id], ran |-> FALSE]
    ELSE [memo |-> (key_id :> create_jwt_key_pair(key_id, n)) @@ memo,
          value |-> create_jwt_key_pair(key_id, n), ran |-> TRUE]

\* probe: the memo, the key ids the body ran for (history), the calls and
\* what they returned (history)
KeyPairInit ==
    /\ Init!1 /\ Init!2 /\ Init!3 /\ Init!4 /\ Init!5
    /\ Init!6 /\ Init!7 /\ Init!8 /\ Init!9
    /\ probe = [memo |-> EmptyMap, generated |-> <<>>, returned |-> <<>>]

CreateKeyPair ==
    /\ Len(probe.returned) < MaxKeyCalls
    /\ \E key_id \in KeyIds :
          LET r == lru_cache(probe.memo, key_id, Len(probe.generated) + 1)
          IN probe' = [memo |-> r.memo,
                       generated |-> IF r.ran THEN Append(probe.generated, key_id)
                                     ELSE probe.generated,
                       returned |-> Append(probe.returned,
                                           [key_id |-> key_id, value |-> r.value])]
    /\ UNCHANGED <<now, ticks, ncalls, caches, born, stack, ret, flow, calls>>

KeyPairSpec == KeyPairInit /\ [][CreateKeyPair]_vars

----------------------------------------------------------------------------
(* The log: the records log_method and the cached wrapper write for a call   *)
(* of a cached function                                                       *)

METHOD == 5                        \* logging.METHOD
LogLevels == {METHOD, 10, 30}      \* the logger at METHOD, DEBUG or WARNING

\* a record reaches the log if the logger is enabled for its level
Emit(log, level, values) ==
    IF level >= log.level
    THEN [log EXCEPT !.records = Append(@, [level |-> level, values |-> values])]
    ELSE log

\* pre_log: "function_name", "args": list(args), "kwargs": dict(**kwargs)
pre_log(log, f, args, kwargs) ==
    Emit(log, METHOD, <<Str(f), Str("entry"), Tup(args), Dict(kwargs)>>)

\* log.debug(f"Cache hit/miss for {func_name} with cache_key {cache_key}")
CacheLine(log, f, args, kwargs) ==
    Emit(log, 10, <<Str(f), Tup(CacheKey(args, kwargs))>>)

\* post_log / log_and_reraise: the entry record again, marked "exit" (the
\* output or exception it also carries is not among the values kept here)
post_log(log, f, args, kwargs) ==
    Emit(log, METHOD, <<Str(f), Str("exit"), Tup(args), Dict(kwargs)>>)

LogInit ==
    /\ Init!1 /\ Init!2 /\ Init!3 /\ Init!4 /\ Init!5
    /\ Init!6 /\ Init!7 /\ Init!8 /\ Init!9
    /\ \E level \in LogLevels : probe = [level |-> level, records |-> <<>>]

LoggedFunctions == CachedFunctions

\* the records of a call up to where c stands: entry and cache line, and the
\* exit record if the call has returned
LogOfCall(log, c, f, args) ==
    LET entered == CacheLine(pre_log(log, f, args, <<>>), f, args, <<>>)
    IN IF c.stack = <<>> THEN post_log(entered, f, args, <<>>) ELSE entered

LogCall ==
    /\ Idle
    /\ ncalls < MaxCalls
    /\ \E f \in LoggedFunctions : \E args \in ArgLists(f) :
          LET c == Settle([Config EXCEPT
                      !.calls = <<>>, !.flow = NoFlow,
                      !.stack = <<Frame("wrapper", f, "enter", args, <<>>)>>], now)
          IN Becomes(c) /\ probe' = LogOfCall(probe, c, f, args)
    /\ ncalls' = ncalls + 1
    /\ UNCHANGED <<now, ticks>>

\* what the call becomes when the servers answer as they do when all is well
GoodAnswers ==
    LET pc == Top(Config).pc
    IN CASE pc = "authorize" ->
              {AfterStep(Config, pc, resp, AuthorizeStep(flow.f, resp), now) :
                  resp \in GoodAuthorize}
         [] pc = "submit" ->
              {AfterStep(Config, pc, resp, SubmitStep(flow.f, resp), now) :
                  resp \in GoodLogin}
         [] pc = "token" ->
              {AfterStep(Config, pc, resp, TokenStep(flow.f, resp), now) :
                  resp \in GoodToken(flow.f)}

LogAnswer ==
    /\ stack # <<>> /\ Top(Config).kind = "flow"
    /\ \E c \in GoodAnswers :
          /\ Becomes(c)
          /\ probe' = IF c.stack = <<>>
                      THEN post_log(probe, stack[1].f, stack[1].args, stack[1].kwargs)
                      ELSE probe
    /\ UNCHANGED <<now, ticks, ncalls>>

LogNext == LogCall \/ LogAnswer

LogSpec == LogInit /\ [][LogNext]_vars

\* the signing key and the client secret among the arguments of the model
Secrets == {Str("private_key"), Str("secret")}

\* the value is, or holds at some depth, a secret
RECURSIVE HoldsSecret(_)
HoldsSecret(v) ==
    IF v.k \in {"tuple", "dict"}
    THEN \E i \in 1..Len(v.s) :
            IF v.k = "dict" THEN HoldsSecret(v.s[i][2]) ELSE HoldsSecret(v.s[i])
    ELSE v \in Secrets

\* C19: no log record of a token flow holds the JWT signing private key or a
\* client secret: not the entry and exit records of log_method, not the cache
\* hit/miss lines with the cache key.
C19_NoSecretLogged ==
    \A i \in 1..Len(probe.records) :
        \A j \in 1..Len(probe.records[i].values) :
            ~HoldsSecret(probe.records[i].values[j])

----------------------------------------------------------------------------
(* The authorization-code flow and the errors its calls end with when the    *)
(* form or the authorization code is missing                                  *)

\* a test calls the combined-auth function or the authenticator's get_token()
CallAuthCode ==
    \/ Call(COMBINED)
    \/ /\ Idle
       /\ ncalls < MaxCalls
       /\ Becomes([Config EXCEPT
               !.calls = <<>>, !.flow = NewFlow("AuthorizationCodeAuthenticator"),
               !.stack = <<Frame("flow", "AuthorizationCodeAuthenticator",
                                 "authorize", <<>>, <<>>)>>])
       /\ ncalls' = ncalls + 1
       /\ UNCHANGED <<now, ticks, probe>>

\* the failures seen so far, each once
Seen(failures, what, step) ==
    LET failure == [what |-> what, out |-> step.out]
    IN IF \E i \in 1..Len(failures) : failures[i] = failure
       THEN failures ELSE Append(failures, failure)

\* the authorize endpoint answers; the page of a 200 answer may hold no form
AuthorizeAnswer ==
    /\ Waiting("authorize")
    /\ \E resp \in AuthorizeResponses :
          LET step == AuthorizeStep(flow.f, resp)
          IN /\ Becomes(AfterStep(Config, "authorize", resp, step, now))
             /\ probe' = IF resp.status = 200 /\ ~resp.form
                         THEN Seen(probe, "no form", step) ELSE probe
    /\ UNCHANGED <<now, ticks, ncalls>>

\* the login submission is answered; no redirect may have been followed, or
\* the Location of the last one may hold no code
LoginAnswer ==
    /\ Waiting("submit")
    /\ \E resp \in LoginResponses :
          LET step == SubmitStep(flow.f, resp)
          IN /\ Becomes(AfterStep(Config, "submit", resp, step, now))
             /\ probe' = IF ~resp.history \/ resp.codes = <<>>
                         THEN Seen(probe, "no code", step) ELSE probe
    /\ UNCHANGED <<now, ticks, ncalls>>

ErrorNext == CallAuthCode \/ AuthorizeAnswer \/ LoginAnswer \/ PostToken

ErrorSpec == Init /\ [][ErrorNext]_vars

\* C20: in the authorization-code flow a call that fails for want of a form
\* in the authorize page and a call that fails for want of an authorization
\* code (no redirect followed, or no code parameter in its Location) never
\* end with the same error.
C20_FormAndCodeErrorsDiffer ==
    \A i, j \in 1..Len(probe) :
        (probe[i].what = "no form" /\ probe[j].what = "no code")
            => probe[i].out # probe[j].out

----------------------------------------------------------------------------
(* apigee_apis.py: the credentials of the Apigee client, read from the       *)
(* environment and validated when the settings object is constructed          *)

PROD == "ApigeeProdCredentials"
NONPROD == "ApigeeNonProdCredentials"

\* the fields of a credentials class other than auth_server
CredentialFields(cls) ==
    IF cls = PROD
    THEN {"apigee_nhsd_prod_username", "apigee_nhsd_prod_password",
          "apigee_nhsd_prod_passcode", "apigee_access_token"}
    ELSE {"apigee_nhsd_nonprod_username", "apigee_nhsd_nonprod_password",
          "apigee_nhsd_nonprod_otp_key", "apigee_access_token"}

\* auth_server has a default; the environment may set it, also to ""
AuthServers(cls) ==
    {Str(IF cls = PROD THEN "nhs-digital-prod.login.apigee.com" ELSE "login.apigee.com"),
     Str("")}

\* an Optional[str] read from the environment: unset, empty, or set
OptionalStrs == {None, Str(""), Str("x")}

\* bool(v) of an Optional[str]
IsSet(v) == v # None /\ v # Str("")

\* the values pydantic hands to the root validator
CredentialValues(cls) ==
    {fs @@ ("auth_server" :> a) :
        fs \in [CredentialFields(cls) -> OptionalStrs], a \in AuthServers(cls)}

\* all([values.get(key) for key in keys])
AllSet(values, keys) == \A key \in keys : IsSet(values[key])

\* the text of the ValueError, word by word
ErrorMessage(cls) ==
    IF cls = PROD
    THEN <<"Please", "provide", "valid", "credentials", "or", "an", "access_token">>
    ELSE <<"Please", "provide", "valid", "credentials", "or", "apigee_access_token">>

Validated(values, auth_method) ==
    [kind |-> "return", values |-> values @@ ("auth_method" :> auth_method),
     err |-> "", message |-> <<>>]

ValueError(message) ==
    [kind |-> "raise", values |-> EmptyMap, err |-> "ValueError", message |-> message]

check_credentials_config(cls, values) ==
    IF cls = PROD
    THEN IF AllSet(values, {"apigee_nhsd_prod_username", "apigee_nhsd_prod_password",
                            "auth_server"})
         THEN Validated(values, "saml")
         ELSE IF AllSet(values, {"auth_server", "apigee_nhsd_prod_passcode"})
         THEN Validated(values, "saml")
         ELSE IF IsSet(values["apigee_access_token"])
         THEN Validated(values, "access_token")
         ELSE ValueError(ErrorMessage(cls))
    ELSE IF AllSet(values, {"apigee_nhsd_nonprod_username", "apigee_nhsd_nonprod_password",
                            "apigee_nhsd_nonprod_otp_key"})
         THEN Validated(values, "saml")
         ELSE IF AllSet(values, {"auth_server", "apigee_nhsd_nonprod_password",
                                 "apigee_nhsd_nonprod_username"})
         THEN Validated(values, "saml")
         ELSE IF IsSet(values["apigee_access_token"])
         THEN Validated(values, "access_token")
         ELSE ValueError(ErrorMessage(cls))

\* the environment a credentials object is constructed in; nothing constructed
\* and no request sent yet
CredentialsInit ==
    /\ Init!1 /\ Init!2 /\ Init!3 /\ Init!4 /\ Init!5
    /\ Init!6 /\ Init!7 /\ Init!8 /\ Init!9
    /\ \E cls \in {PROD, NONPROD} : \E values \in CredentialValues(cls) :
          probe = [cls |-> cls, values |-> values, out |-> NoRet, sent |-> <<>>]

\* ApigeeProdCredentials() / ApigeeNonProdCredentials(): the root validator runs
Construct ==
    /\ probe.out = NoRet
    /\ probe' = [probe EXCEPT !.out = check_credentials_config(probe.cls, probe.values)]
    /\ UNCHANGED <<now, ticks, ncalls, caches, born, stack, ret, flow, calls>>

CredentialsSpec == CredentialsInit /\ [][Construct]_vars

\* the fields a message names: by their name, or by it without its prefix
ShortName ==
    [apigee_nhsd_prod_username |-> "username", apigee_nhsd_prod_password |-> "password",
     apigee_nhsd_prod_passcode |-> "passcode", apigee_access_token |-> "access_token",
     apigee_nhsd_nonprod_username |-> "username",
     apigee_nhsd_nonprod_password |-> "password",
     apigee_nhsd_nonprod_otp_key |-> "otp_key"]
Names(message, field) ==
    \E i \in 1..Len(message) : message[i] \in {field, ShortName[field]}

\* C21: constructing Apigee credentials with neither a complete
\* username/password set nor an access token fails in the constructor, with no
\* request sent, and the message of the error names every credential field
\* that was not supplied.
C21_MissingFieldsNamed ==
    (probe.out # NoRet /\ ~IsSet(probe.values["apigee_access_token"])
        /\ \E f \in CredentialFields(probe.cls) :
               ShortName[f] \in {"username", "password"} /\ ~IsSet(probe.values[f]))
      => \/ probe.out.kind = "return"
         \/ /\ probe.out.kind = "raise" /\ probe.sent = <<>>
            /\ \A f \in CredentialFields(probe.cls) :
                  ~IsSet(probe.values[f]) => Names(probe.out.message, f)

----------------------------------------------------------------------------
(* cache_tokens under threads: two calls of one cached function whose steps  *)
(* interleave.  A _TokenCache is an object on the heap; _CACHES holds, for   *)
(* the function, a reference to one.  A thread is switched out only between  *)
(* the statements of the wrapper; get() and insert() run whole.              *)

Threads == {"t1", "t2"}

NoThread == [pc |-> "idle", args |-> <<>>, cache |-> <<>>, token |-> None, out |-> NoRet]

\* _CACHES without the function, or with an empty cache for it
ThreadInit ==
    /\ Init!1 /\ Init!2 /\ Init!3 /\ Init!4 /\ Init!5
    /\ Init!6 /\ Init!7 /\ Init!8 /\ Init!9
    /\ \E made \in BOOLEAN :
          probe = [registry |-> IF made THEN <<1>> ELSE <<>>,
                   heap |-> IF made THEN <<EmptyMap>> ELSE <<>>,
                   serial |-> 0,
                   events |-> <<>>,
                   th |-> [t \in Threads |-> NoThread]]

At(t, pc) == probe.th[t].pc = pc
ThreadKey(t) == CacheKey(probe.th[t].args, <<>>)
Move(t, pc) == [probe EXCEPT !.th[t].pc = pc]
Event(t, what, cache, token) == [th |-> t, what |-> what, cache |-> cache, token |-> token]
Rests == UNCHANGED <<now, ticks, ncalls, caches, born, stack, ret, flow, calls>>

\* a thread calls the cached function
ThreadCall(t) ==
    /\ At(t, "idle")
    /\ \E args \in ArgLists(SIGNED_JWT) :
          probe' = [probe EXCEPT !.th[t].pc = "check", !.th[t].args = args]
    /\ Rests

\* if func_name not in _CACHES:
CheckCaches(t) ==
    /\ At(t, "check")
    /\ probe' = Move(t, IF probe.registry = <<>> THEN "create" ELSE "read")
    /\ Rests

\* _CACHES[func_name] = _TokenCache()
CreateCache(t) ==
    /\ At(t, "create")
    /\ probe' = [probe EXCEPT !.heap = Append(@, EmptyMap),
                              !.registry = <<Len(probe.heap) + 1>>,
                              !.th[t].pc = "read"]
    /\ Rests

\* cache = _CACHES[func_name]
ReadCache(t) ==
    /\ At(t, "read")
    /\ probe' = [probe EXCEPT !.th[t].cache = probe.registry, !.th[t].pc = "get"]
    /\ Rests

\* token_data = cache.get(cache_key), and the return of a hit
ThreadGet(p, t, key, clock) ==
    LET c == p.th[t].cache[1]
        g == CacheGet(p.heap[c], key, clock)
        q == [p EXCEPT !.heap[c] = g.cache,
                       !.events = Append(@, Event(t, IF Truthy(g.value) THEN "hit" ELSE "miss",
                                                  c, g.value))]
    IN IF g.raised THEN [q EXCEPT !.th[t].pc = "done", !.th[t].out = Raise("KeyError")]
       ELSE IF Truthy(g.value)
       THEN [q EXCEPT !.th[t].pc = "done", !.th[t].out = Return(g.value)]
       ELSE [q EXCEPT !.th[t].pc = "fetch"]

Lookup(t) ==
    /\ At(t, "get")
    /\ probe' = ThreadGet(probe, t, ThreadKey(t), now)
    /\ Rests

\* token_data = f(*args, **kwargs): a newly issued token, or an exception
Fetch(t) ==
    /\ At(t, "fetch")
    /\ \/ \E token \in TokenPayloads(now, probe.serial + 1, FALSE) :
             probe' = [probe EXCEPT !.serial = @ + 1, !.th[t].token = token,
                                    !.th[t].pc = "insert",
                                    !.events = Append(@, Event(t, "fetch", <<>>, token))]
       \/ probe' = [probe EXCEPT !.th[t].pc = "done", !.th[t].out = Raise("RuntimeError"),
                                 !.events = Append(@, Event(t, "fetch", <<>>, None))]
    /\ Rests

\* An insert that keeps the entry a key already has; C22 tells it from the
\* assignment self._cache[key] = token_data.
ThreadInsertIfAbsent(p, t, key, clock) ==
    LET c == p.th[t].cache[1]
        data == InsertData(p.th[t].token, clock)
    IN [p EXCEPT !.heap[c] = IF key \in DOMAIN @ THEN @
                              ELSE CacheInsert(@, key, p.th[t].token, clock),
                 !.th[t].pc = "done", !.th[t].out = Return(data),
                 !.events = Append(@, Event(t, "insert", c, data))]

\* cache.insert(cache_key, token_data); return token_data
ThreadInsert(p, t, key, clock) ==
    LET c == p.th[t].cache[1]
        data == InsertData(p.th[t].token, clock)
    IN [p EXCEPT !.heap[c] = CacheInsert(@, key, p.th[t].token, clock),
                 !.th[t].pc = "done", !.th[t].out = Return(data),
                 !.events = Append(@, Event(t, "insert", c, data))]

Insert(t) ==
    /\ At(t, "insert")
    /\ probe' = ThreadInsert(probe, t, ThreadKey(t), now)
    /\ Rests

ThreadNext ==
    \E t \in Threads :
        \/ ThreadCall(t) \/ CheckCaches(t) \/ CreateCache(t) \/ ReadCache(t)
        \/ Lookup(t) \/ Fetch(t) \/ Insert(t)

ThreadSpec == ThreadInit /\ [][ThreadNext]_vars

\* the positions in the history of the events of one kind
EventsOf(what) == {i \in 1..Len(probe.events) : probe.events[i].what = what}
Last(S) == CHOOSE i \in S : \A j \in S : j <= i

\* both calls have returned, they had the same arguments, and each looked up
\* before any insert
BothReturnedInterleaved ==
    /\ \A t \in Threads : At(t, "done") /\ probe.th[t].out.kind = "return"
    /\ \A t, u \in Threads : probe.th[t].args = probe.th[u].args
    /\ \A i \in EventsOf("miss") \cup EventsOf("hit") : \A j \in EventsOf("insert") : i < j

\* the cache _CACHES holds for the function
RegisteredCache == probe.heap[probe.registry[1]]

\* every returned call ran the underlying fetch itself and returned its token
EachFetched ==
    /\ EventsOf("hit") = {}
    /\ \A t \in Threads :
          \E i \in EventsOf("fetch") :
              /\ probe.events[i].th = t
              /\ probe.th[t].out.value = InsertData(probe.events[i].token, now)
    /\ \A i, j \in EventsOf("fetch") : i # j => probe.events[i].token # probe.events[j].token

\* C22 as stated: when two calls with the same arguments interleave on an empty
\* cache, each looking up before the other inserts, both run the fetch, and
\* when both have returned the cache holds for the key the payload inserted
\* last.
C22_BothFetchLastInsertStays ==
    BothReturnedInterleaved =>
        /\ EachFetched
        /\ DOMAIN RegisteredCache = {ThreadKey("t1")}
        /\ RegisteredCache[ThreadKey("t1")] = probe.events[Last(EventsOf("insert"))].token

\* the inserts into the cache that _CACHES holds
RegisteredInserts == {i \in EventsOf("insert") : probe.events[i].cache = probe.registry[1]}

\* C22, with the cache object: both run the fetch, and when both have returned
\* the cache that _CACHES holds for the function has for the key one whole
\* payload, the one inserted last into that cache object; a call that took its
\* cache object before the other call replaced it in _CACHES inserts elsewhere.
C22_BothFetchLastRegisteredInsertStays ==
    BothReturnedInterleaved =>
        /\ EachFetched
        /\ DOMAIN RegisteredCache = {ThreadKey("t1")}
        /\ RegisteredInserts # {}
        /\ RegisteredCache[ThreadKey("t1")] = probe.events[Last(RegisteredInserts)].token
        /\ \E t \in Threads : RegisteredCache[ThreadKey("t1")] = probe.th[t].out.value

\* both calls returned after interleaving, and the second insert replaced the
\* first in the one cache object
C22_Witness ==
    /\ BothReturnedInterleaved
    /\ Cardinality(RegisteredInserts) = 2
    /\ RegisteredCache[ThreadKey("t1")] # probe.events[CHOOSE i \in RegisteredInserts : i # Last(RegisteredInserts)].token

----------------------------------------------------------------------------
(* The flows when a server may never answer.  session.post(url, data=data),  *)
(* requests.post(url, data=data) and session.get(...) are called without a  *)
(* timeout, so the only step out of a pending request is the server's        *)
(* answer.  Tests go on calling; nothing obliges a server to answer.         *)

HangSpec == Init /\ [][FlowNext]_vars /\ WF_vars(FlowCall \/ CallAuthenticator)

\* C23: every call of a token flow comes to an end, returning or raising, also
\* when a server never answers a request of it.
C23_EveryCallEnds == (stack # <<>>) ~> (stack = <<>>)

----------------------------------------------------------------------------
(* nhsd_apim_authorization.py: the authorization a test declares with its    *)
(* nhsd_apim_authorization marker, and the token the test is given for it.   *)
(* A marker is an object shared by the tests it decorates; the dict passed   *)
(* to it as its first argument is the same dict in each of them.             *)

\* the dicts the markers of a test module are written with
MarkDicts ==
    [app3 |-> [access |-> "application", level |-> "level3"],
     force |-> [access |-> "application", level |-> "level3", force_new_token |-> "True"],
     named |-> [access |-> "application", level |-> "level3", api_name |-> "marker-api"],
     app0 |-> [access |-> "application", level |-> "level0"],
     bad |-> [access |-> "application", level |-> "aal3"]]
Marks == DOMAIN MarkDicts

\* no marker, marker(), marker(dict), marker(**dict)
MarkerForms == {"none", "empty", "args", "kwargs"}

\* what the nhsd_apim_api_name fixture gives a test
ApiNames == {"api1", "api2"}

\* the Literal levels of the three authorization classes
AccessLevels ==
    [healthcare_worker |-> {"aal1", "aal3"},
     patient |-> {"P0", "P5", "P9"},
     application |-> {"level0", "level3"}]

ACCESS_SCOPE_PARTS ==
    [healthcare_worker |-> "user-nhs-cis2", patient |-> "user-nhs-login",
     application |-> "app"]

\* BaseAuthorization.dict(): the scope of the product, ":".join([...])
Scope(access, level, api_name) ==
    IF access = "application" /\ level = "level0"
    THEN None
    ELSE <<"urn:nhsd:apim", ACCESS_SCOPE_PARTS[access], level, api_name>>

\* Authorization(nhsd_apim_authorization=auth_dict).dict()["nhsd_apim_authorization"]:
\* the class is chosen by "access", keys that are not fields are dropped
Authorization(auth_dict) ==
    IF \/ "access" \notin DOMAIN auth_dict
       \/ "level" \notin DOMAIN auth_dict
       \/ "api_name" \notin DOMAIN auth_dict
    THEN Raise("ValidationError")
    ELSE IF \/ auth_dict["access"] \notin DOMAIN AccessLevels
            \/ auth_dict["level"] \notin AccessLevels[auth_dict["access"]]
    THEN Raise("ValidationError")
    ELSE LET access == auth_dict["access"]
             base == [api_name |-> auth_dict["api_name"],
                      generation |-> IF access = "patient" THEN 1 ELSE 2,
                      access |-> access,
                      level |-> auth_dict["level"],
                      scope |-> Scope(access, auth_dict["level"], auth_dict["api_name"])]
         IN Return(IF access = "application" THEN base
                   ELSE base @@ [authentication |-> "combined", login_form |-> EmptyMap])

\* The fixture: what it returns or raises, and the marker's dict afterwards
\* (auth_dict["api_name"] = nhsd_apim_api_name writes into marker.args[0]).
nhsd_apim_authorization(form, marker_dict, nhsd_apim_api_name) ==
    IF form \in {"none", "empty"}
    THEN [out |-> Return(None), marker_dict |-> marker_dict]
    ELSE LET auth_dict == IF "api_name" \in DOMAIN marker_dict
                          THEN marker_dict
                          ELSE marker_dict @@ [api_name |-> nhsd_apim_api_name]
         IN [out |-> Authorization(auth_dict),
             marker_dict |-> IF form = "args" THEN auth_dict ELSE marker_dict]

\* The test is given its token: for application access at level3 by the cached
\* signed-JWT flow with the credentials of the test app; no token otherwise.
FetchesToken(authorization) ==
    /\ authorization.kind = "return"
    /\ authorization.value # None
    /\ authorization.value["access"] = "application"
    /\ authorization.value["level"] = "level3"

TestAppArgs == <<Str("base_url"), Str("client1"), Str("private_key"), Str("kid")>>

\* the markers as written, no test run yet
TestInit ==
    /\ Init!1 /\ Init!2 /\ Init!3 /\ Init!4 /\ Init!5
    /\ Init!6 /\ Init!7 /\ Init!8 /\ Init!9
    /\ probe = [marks |-> MarkDicts, tests |-> <<>>]

\* a test runs its fixtures: the authorization of its marker, then its token
RunTest ==
    /\ Idle
    /\ ncalls < MaxCalls
    /\ \E form \in MarkerForms, m \in Marks, api \in ApiNames :
          LET r == nhsd_apim_authorization(form, probe.marks[m], api)
              c == [Config EXCEPT !.calls = <<>>, !.flow = NoFlow]
          IN /\ probe' = [marks |-> [probe.marks EXCEPT ![m] = r.marker_dict],
                          tests |-> Append(probe.tests,
                                           [form |-> form, mark |-> m, api |-> api,
                                            authorization |-> r.out])]
             /\ IF FetchesToken(r.out)
                THEN Becomes(Settle([c EXCEPT !.stack =
                         <<Frame("wrapper", SIGNED_JWT, "enter", TestAppArgs, <<>>)>>], now))
                ELSE Becomes(c)
    /\ ncalls' = ncalls + 1
    /\ UNCHANGED <<now, ticks>>

TestNext == RunTest \/ PostToken

TestSpec == TestInit /\ [][TestNext]_vars

\* the marker of the last test, as written, asks for a new token
LastTestForcesNewToken ==
    /\ probe.tests # <<>>
    /\ LastOf(probe.tests).form \in {"args", "kwargs"}
    /\ "force_new_token" \in DOMAIN MarkDicts[LastOf(probe.tests).mark]

\* C24: a test whose marker carries force_new_token = True gets its token from
\* a new fetch, also when a valid entry for the same credentials is cached.
C24_ForceNewTokenFetches ==
    (Idle /\ LastTestForcesNewToken /\ calls # <<>>) => LastOf(calls).nfetch = 1

\* C25: the fixture yields None exactly for a test with no marker or a marker
\* without arguments; with arguments, what it yields is the validated
\* authorization of the marker as written, with the api_name of the marker if
\* it has one and that of the nhsd_apim_api_name fixture otherwise.
C25_AuthorizationOfMarker ==
    \A i \in 1..Len(probe.tests) :
        LET t == probe.tests[i]
            written == MarkDicts[t.mark]
        IN /\ t.authorization = Return(None) <=> t.form \in {"none", "empty"}
           /\ (t.form \in {"args", "kwargs"} /\ t.authorization.kind = "return")
                 => /\ t.authorization.value["access"] = written["access"]
                    /\ t.authorization.value["level"] = written["level"]
                    /\ t.authorization.value["api_name"] =
                          IF "api_name" \in DOMAIN written THEN written["api_name"] ELSE t.api

----------------------------------------------------------------------------
(* C26 *)

\* the call this step starts went on to call f: get() returned None
Missed == stack' # <<>> /\ stack'[1].kind = "wrapper" /\ stack'[1].pc = "fetch"

\* C26: the lookup of a cached call changes the cache of its function only by
\* evicting the looked-up key.  For an absent key get() returns None and the
\* cache is as before; for a present key with
\* int(now) + 5 > int(issued_at) + 1000 * int(expires_in) it returns None and
\* the cache is as before less that key; otherwise it returns the stored entry
\* and the cache is as before.
C26_GetEvictsOnlyLookedUpKey ==
    [][StartsCachedCall
          => LET key == StartedKey
                 before == CacheOf(caches, StartedF)
                 after == CacheOf(caches', StartedF)
             IN IF key \notin DOMAIN before
                THEN Missed /\ after = before
                ELSE IF HasToken(before[key]) /\ Expired(before[key], now)
                THEN Missed /\ after = MapRemove(before, key)
                ELSE HitWith(before[key]) /\ after = before]_vars

----------------------------------------------------------------------------
(* The HTTP session of a login.  A requests session keeps the cookies the    *)
(* servers set and sends them with every later request made through it.      *)

LoginFunctions ==
    {CIS2, COMBINED, "KeycloakUserAuthenticator", "AuthorizationCodeAuthenticator"}

\* the call of a login function for the user of a login form
LoginArgs(f, form) ==
    CASE f = CIS2 -> MockCis2Args(form)
      [] f = COMBINED ->
            <<Str("base_url"), Str("client1"), Str("secret"), Str("callback"),
              Str("nhs-cis2"), form>>
      [] OTHER -> <<form>>          \* an authenticator: config.login_form

UserOf(args) == DictGet(args[Len(args)], "username").n

\* One session for all logins, made at the first; C27 tells it from
\* requests.session() at the start of every login.
_session_kept(sessions) ==
    IF sessions = <<>> THEN <<{}>> ELSE sessions

\* _session(), requests.session(): a new session, with no cookies; the session
\* of the login is the last one made
_session(sessions) == Append(sessions, {})

SessionInit ==
    /\ Init!1 /\ Init!2 /\ Init!3 /\ Init!4 /\ Init!5
    /\ Init!6 /\ Init!7 /\ Init!8 /\ Init!9
    /\ probe = [sessions |-> <<>>, sent |-> <<>>]

\* a test calls a login function; unless the cache serves the call, the body
\* starts by making its session
Login ==
    /\ Idle
    /\ ncalls < MaxCalls
    /\ \E f \in LoginFunctions, form \in {LoginForm, OtherLoginForm} :
          LET args == LoginArgs(f, form)
              start == [Config EXCEPT !.calls = <<>>, !.flow = NoFlow]
              c == IF f \in CachedFunctions
                   THEN Settle([start EXCEPT !.stack =
                                   <<Frame("wrapper", f, "enter", args, <<>>)>>], now)
                   ELSE [start EXCEPT !.flow = NewFlow(f),
                                      !.stack = <<Frame("flow", f, FirstPc(f), args, <<>>)>>]
          IN /\ Becomes(c)
             /\ probe' = IF c.stack # <<>>
                         THEN [probe EXCEPT !.sessions = _session(@)]
                         ELSE probe
    /\ ncalls' = ncalls + 1
    /\ UNCHANGED <<now, ticks>>

\* what the call becomes with the answer to its pending request
Answers ==
    LET pc == Top(Config).pc
    IN CASE pc = "authorize" ->
              {AfterStep(Config, pc, resp, AuthorizeStep(flow.f, resp), now) :
                  resp \in AuthorizeResponses}
         [] pc = "submit" ->
              {AfterStep(Config, pc, resp, SubmitStep(flow.f, resp), now) :
                  resp \in LoginResponses}
         [] pc = "token" ->
              {AfterStep(Config, pc, resp, TokenStep(flow.f, resp), now) :
                  resp \in TokenResponses(now, TokenNumber(flow.f),
                                          FlowOf(flow.f) = "keycloak")}

\* login_session.get / .post / .request: the request goes out through the
\* session of the login with the cookies the session holds, and the answer
\* leaves the server's cookie for the user in it
SessionRequest ==
    /\ stack # <<>> /\ Top(Config).kind = "flow"
    /\ \E c \in Answers : Becomes(c)
    /\ LET s == Len(probe.sessions)
           user == UserOf(Top(Config).args)
       IN probe' = [sessions |-> [probe.sessions EXCEPT
                                     ![s] = @ \cup {[login |-> ncalls, user |-> user]}],
                    sent |-> Append(probe.sent,
                                    [login |-> ncalls, user |-> user, session |-> s,
                                     cookies |-> probe.sessions[s]])]
    /\ UNCHANGED <<now, ticks, ncalls>>

SessionNext == Login \/ SessionRequest

SessionSpec == SessionInit /\ [][SessionNext]_vars

\* C27: all requests of a login go through one session, made for that login,
\* and no request carries a cookie set during another login.
C27_NewSessionPerLogin ==
    \A i \in 1..Len(probe.sent) :
        /\ \A j \in 1..Len(probe.sent) :
              probe.sent[i].login = probe.sent[j].login
                  <=> probe.sent[i].session = probe.sent[j].session
        /\ \A cookie \in probe.sent[i].cookies : cookie.login = probe.sent[i].login

\* a login of one user sent all three requests, the later ones with its own
\* cookies, after a login of another user had got its cookies
C27_Witness ==
    \E i, j \in 1..Len(probe.sent) :
        /\ probe.sent[i].user # probe.sent[j].user
        /\ probe.sent[i].login < probe.sent[j].login
        /\ probe.sessions[probe.sent[i].session] # {}
        /\ probe.sent[j].cookies # {}
        /\ Len(flow.sent) = 3 /\ Idle

----------------------------------------------------------------------------
(* apigee_apis.py: ApigeeAuthenticator and the requests of ApigeeClient.  An *)
(* Apigee token is a JWT; of its claims only exp, in epoch seconds, is read. *)

leeway == 10                      \* jwt.decode(..., leeway=10)
ApigeeLifetimes == {6, 600}       \* seconds a newly issued token lives

\* the validated credentials: saml (username and password), or an access
\* token issued beforehand, which may be past its exp when the session starts
ApigeeConfigs ==
    {[auth_method |-> "saml", apigee_access_token |-> None]}
    \cup {[auth_method |-> "access_token",
           apigee_access_token |-> [serial |-> 0, exp |-> Epoch + d]] : d \in {-100, 600}}

\* what POST https://<auth_server>/oauth/token is answered with at time t
AuthServerResponses(t, serial) ==
    {[status |-> 200, access_token |-> [serial |-> serial, exp |-> t + life]] :
        life \in ApigeeLifetimes}
    \cup {[status |-> 401, access_token |-> None]}

\* A check that never finds the held token valid; C29 tells it from
\* _is_token_valid.
_is_token_valid_never(token, t) == FALSE

\* _is_token_valid: jwt.decode with verify_exp raises ExpiredSignatureError
\* once exp <= now - leeway
_is_token_valid(token, t) ==
    IF token # None THEN token.exp > t - leeway ELSE FALSE

\* _get_fresh_token: the POST and resp.raise_for_status() in saml mode, the
\* configured token otherwise
_get_fresh_token(config, resp) ==
    IF config.auth_method = "saml"
    THEN IF IsHttpError(resp.status)
         THEN [NoRet EXCEPT !.kind = "raise", !.err = "HTTPError", !.status = resp.status]
         ELSE Return(resp.access_token)
    ELSE Return(config.apigee_access_token)

\* get_token at time t, resp being the auth server's answer should a POST be
\* sent: the token held afterwards, the outcome, whether a POST was sent
get_token(config, token, t, resp) ==
    IF _is_token_valid(token, t)
    THEN [token |-> token, out |-> Return(token), posted |-> FALSE]
    ELSE LET fresh == _get_fresh_token(config, resp)
         IN [token |-> IF fresh.kind = "return" THEN fresh.value ELSE token,
             out |-> fresh,
             posted |-> config.auth_method = "saml"]

ApigeeInit ==
    /\ Init!1 /\ Init!2 /\ Init!3 /\ Init!4 /\ Init!5
    /\ Init!6 /\ Init!7 /\ Init!8 /\ Init!9
    /\ \E config \in ApigeeConfigs :
          probe = [config |-> config, _token |-> None, serial |-> 0, log |-> <<>>]

\* ApigeeClient.get / post / put / delete: the Authorization header is set to
\* the bearer token get_token() returns, and the request is sent with it
ClientRequest ==
    /\ ncalls < MaxCalls
    /\ \E resp \in AuthServerResponses(now, probe.serial + 1) :
          LET r == get_token(probe.config, probe._token, now, resp)
          IN probe' = [probe EXCEPT
                 !._token = r.token,
                 !.serial = IF r.posted THEN @ + 1 ELSE @,
                 !.log = Append(@, [at |-> now, held |-> probe._token, out |-> r.out,
                                    posted |-> r.posted, after |-> r.token,
                                    sent |-> r.out.kind = "return"])]
    /\ ncalls' = ncalls + 1
    /\ UNCHANGED <<now, ticks, caches, born, stack, ret, flow, calls>>

ApigeeNext == Tick \/ ClientRequest

ApigeeSpec == ApigeeInit /\ [][ApigeeNext]_vars

\* C28: every request of the Apigee client carries a token that is valid when
\* it is sent: get_token never returns a token whose exp lies more than the
\* leeway of 10 seconds in the past, in saml mode and with a configured
\* access token.
C28_BearerTokenValidAtSend ==
    \A i \in 1..Len(probe.log) :
        probe.log[i].sent => probe.log[i].out.value.exp >= probe.log[i].at - leeway

\* C29: in saml mode a POST is sent only when no token is held or the held
\* token's exp has passed; a call made while the held token is unexpired sends
\* none and returns the held token; a failed POST leaves the held token as it
\* was.
C29_PostOnlyWhenExpired ==
    probe.config.auth_method = "saml" =>
        \A i \in 1..Len(probe.log) :
            LET c == probe.log[i] IN
            /\ c.posted => (c.held = None \/ c.held.exp < c.at)
            /\ (c.held # None /\ c.held.exp >= c.at)
                  => ~c.posted /\ c.out = Return(c.held) /\ c.after = c.held
            /\ (c.posted /\ c.out.kind = "raise") => c.after = c.held
            /\ (c.posted /\ c.out.kind = "return") => c.after = c.out.value /\ c.after # c.held

\* in saml mode: a token was issued, and a call made later, while it was
\* unexpired, returned it without a POST
C29_Witness ==
    /\ probe.config.auth_method = "saml"
    /\ \E i, j \in 1..Len(probe.log) :
          /\ i < j
          /\ probe.log[i].at < probe.log[j].at
          /\ probe.log[i].posted /\ probe.log[i].out.kind = "return"
          /\ probe.log[j].held = probe.log[i].after
          /\ ~probe.log[j].posted /\ probe.log[j].out = Return(probe.log[j].held)

----------------------------------------------------------------------------
(* apigee_edge.py: the test app.  Apigee holds the app; _TEST_APP is the     *)
(* module's copy of the JSON it last got.  Of the app only its credentials   *)
(* (a consumer key subscribed to a product) and the apiProducts field a PUT  *)
(* carries are kept.                                                          *)

MaxAppSteps == 3        \* calls and updates of the test app per behaviour
Products == {"p1", "p2"}

NewApp == [credentials |-> {}, apiProducts |-> <<>>]

\* POST /apps when not given an app id; the fixtures then see _test_app_id == ""
AppInit ==
    /\ Init!1 /\ Init!2 /\ Init!3 /\ Init!4 /\ Init!5
    /\ Init!6 /\ Init!7 /\ Init!8 /\ Init!9
    /\ probe = [apigee |-> NewApp, _TEST_APP |-> None, serial |-> 0, got |-> <<>>]

\* app(force_refresh): the copy if there is one and no refresh is forced, else
\* the JSON of a GET
app(p, force_refresh) ==
    IF p._TEST_APP # None /\ ~force_refresh THEN p ELSE [p EXCEPT !._TEST_APP = p.apigee]

\* what a call of the callable returned, with what Apigee held then
Got(p) == [p EXCEPT !.got = Append(@, [app |-> p._TEST_APP, apigee |-> p.apigee])]

Steps == ncalls < MaxAppSteps /\ ncalls' = ncalls + 1
NoFlows == UNCHANGED <<now, ticks, caches, born, stack, ret, flow, calls>>

\* a fixture or a test asks for the app: nhsd_apim_test_app()
GetApp ==
    /\ Steps
    /\ probe' = Got(app(probe, FALSE))
    /\ NoFlows

\* unsubscribe(): a refresh, a DELETE for every key, a refresh
Unsubscribe ==
    /\ Steps
    /\ LET first == Got(app(probe, TRUE))
           deleted == [first EXCEPT !.apigee.credentials = {}]
       IN probe' = Got(app(deleted, TRUE))
    /\ NoFlows

\* get_matching_creds(app, product_name)
get_matching_creds(a, product_name) ==
    {creds \in a.credentials : creds.apiproduct = product_name}

\* _test_app_credentials: the app is asked for, and if it has no credentials
\* for the product a PUT with app["apiProducts"] = [product_name] adds some;
\* the dict written to is the one app() returned, _TEST_APP itself
TestAppCredentials ==
    /\ Steps
    /\ \E product_name \in Products, status \in {200, 500} :
          LET p == Got(app(probe, FALSE))
          IN IF get_matching_creds(p._TEST_APP, product_name) # {}
             THEN probe' = p
             ELSE LET sent == [p EXCEPT !._TEST_APP.apiProducts = <<product_name>>]
                      added == [sent.apigee EXCEPT
                                   !.credentials = @ \cup {[consumerKey |-> p.serial + 1,
                                                            apiproduct |-> product_name]}]
                  IN probe' = IF status = 200
                              THEN [sent EXCEPT !.apigee = added, !._TEST_APP = added,
                                                !.serial = @ + 1]
                              ELSE sent
    /\ NoFlows

\* a test changes the app through the API wrappers: AppKeysAPI.create_app_key,
\* AppKeysAPI.delete_app_key
WrapperUpdate ==
    /\ Steps
    /\ \/ \E product_name \in Products :
             probe' = [probe EXCEPT
                 !.apigee.credentials = @ \cup {[consumerKey |-> probe.serial + 1,
                                                 apiproduct |-> product_name]},
                 !.serial = @ + 1]
       \/ \E creds \in probe.apigee.credentials :
             probe' = [probe EXCEPT !.apigee.credentials = @ \ {creds}]
    /\ NoFlows

AppNext == GetApp \/ Unsubscribe \/ TestAppCredentials \/ WrapperUpdate

AppSpec == AppInit /\ [][AppNext]_vars

\* C30: what the callable of nhsd_apim_test_app returns is the app as Apigee
\* holds it at the time of the call, with the credentials it then has,
\* whatever updates went before.
C30_AppIsCurrentState ==
    \A i \in 1..Len(probe.got) :
        probe.got[i].app.credentials = probe.got[i].apigee.credentials


(***************************************************************************)
(* The life of the test app (apigee_edge.py): the session fixture          *)
(* _create_test_app, the function fixture _create_function_scoped_test_app,*)
(* the callable of nhsd_apim_test_app, unsubscribe and                     *)
(* get_app_credentials_for_product, with every request they send to       *)
(* Apigee kept in a log.  _test_app_id is "" unless an app id is given.    *)
(***************************************************************************)
AppIds == {"", "id1"}
AppNames == {"session", "function"}

\* the app that exists before the run when its id is configured: with or
\* without credentials for the first product
GivenApps ==
    {[credentials |-> creds, apiProducts |-> <<>>] :
        creds \in {{}, {[consumerKey |-> 0, apiproduct |-> "p1"]}}}

LifeInit ==
    /\ Init!1 /\ Init!2 /\ Init!3 /\ Init!4 /\ Init!5
    /\ Init!6 /\ Init!7 /\ Init!8 /\ Init!9
    /\ \E id \in AppIds, given \in GivenApps :
          probe = [_test_app_id |-> id,
                   apigee |-> IF id = "" THEN None ELSE given,
                   _TEST_APP |-> None, serial |-> 0,
                   phase |-> [a \in AppNames |-> "new"],
                   requests |-> <<>>, torn |-> <<>>, raised |-> "",
                   ran |-> {}]

\* a request of _apigee_edge_session and the status it was answered with
Sent(p, method, target, status) ==
    [p EXCEPT !.requests = Append(@, [method |-> method, target |-> target,
                                      status |-> status])]

Phase(p, a, phase) == [p EXCEPT !.phase[a] = phase]
Raised(p, error) == [p EXCEPT !.raised = error]
\* what has run so far, and how it ended
Ran(p, operation) ==
    [p EXCEPT !.ran = @ \cup {[operation |-> operation, raised |-> p.raised]}]
Quiet == UNCHANGED <<now, ticks, ncalls, caches, born, stack, ret, flow, calls>>

\* _create_test_app up to its yield: with an app id a GET of that app, else a
\* POST of a new app; the assert on the status ends the fixture
CreateTestApp ==
    /\ probe.phase["session"] = "new"
    /\ IF probe._test_app_id # ""
       THEN \E status \in {200, 404} :
               probe' = Phase(Sent(Raised(probe, IF status = 200 THEN "" ELSE "AssertionError"),
                                   "GET", "session", status),
                              "session", IF status = 200 THEN "up" ELSE "failed")
       ELSE \E status \in {201, 500} :
               LET sent == Sent(probe, "POST", "session", status)
               IN probe' = IF status = 201
                           THEN Phase([Raised(sent, "") EXCEPT !.apigee = NewApp], "session", "up")
                           ELSE Phase(Raised(sent, "AssertionError"), "session", "failed")
    /\ Quiet

\* _create_test_app after its yield: without an app id a DELETE of the app
\* and an assert on its status; then _TEST_APP = None
TeardownTestApp ==
    /\ probe.phase["session"] = "up"
    /\ probe.phase["function"] # "up"
    /\ IF probe._test_app_id # ""
       THEN probe' = [Phase(Raised(probe, ""), "session", "done") EXCEPT
                         !._TEST_APP = None,
                         !.torn = Append(@, [app |-> "session", left |-> None])]
       ELSE \E status \in {200, 500} :
               LET sent == Phase(Sent(probe, "DELETE", "session", status), "session", "done")
                   gone == IF status = 200 THEN [sent EXCEPT !.apigee = None] ELSE sent
               IN probe' = IF status = 200
                           THEN [Raised(gone, "") EXCEPT
                                    !._TEST_APP = None,
                                    !.torn = Append(@, [app |-> "session", left |-> None])]
                           ELSE [Raised(gone, "AssertionError") EXCEPT
                                    !.torn = Append(@, [app |-> "session",
                                                        left |-> gone._TEST_APP])]
    /\ Quiet

\* _create_function_scoped_test_app up to its yield: with an app id it adds
\* "/" to a name that is no parameter of it, the fixture function of the
\* module, and sends nothing; else a POST of a second app
CreateFunctionScopedTestApp ==
    /\ probe.phase["function"] = "new"
    /\ probe.phase["session"] \in {"new", "up"}
    /\ IF probe._test_app_id # ""
       THEN probe' = Phase(Raised(probe, "TypeError"), "function", "failed")
       ELSE \E status \in {201, 500} :
               LET sent == Sent(probe, "POST", "function", status)
               IN probe' = IF status = 201
                           THEN Phase(Raised(sent, ""), "function", "up")
                           ELSE Phase(Raised(sent, "AssertionError"), "function", "failed")
    /\ Quiet

\* _create_function_scoped_test_app after its yield
TeardownFunctionScopedTestApp ==
    /\ probe.phase["function"] = "up"
    /\ \E status \in {200, 500} :
          LET sent == Phase(Sent(probe, "DELETE", "function", status), "function", "done")
          IN probe' = IF status = 200
                      THEN [Raised(sent, "") EXCEPT
                               !._TEST_APP = None,
                               !.torn = Append(@, [app |-> "function", left |-> None])]
                      ELSE [Raised(sent, "AssertionError") EXCEPT
                               !.torn = Append(@, [app |-> "function",
                                                   left |-> sent._TEST_APP])]
    /\ Quiet

\* the callable of nhsd_apim_test_app with the GET it sends
LifeApp(p, force_refresh) ==
    IF p._TEST_APP # None /\ ~force_refresh
    THEN p
    ELSE Sent(app(p, force_refresh), "GET", "session", 200)

Up == probe.phase["session"] = "up"

\* a fixture or a test asks for the app
LifeGetApp ==
    /\ Up /\ Steps
    /\ probe' = Ran(Raised(LifeApp(probe, FALSE), ""), "app")
    /\ NoFlows

\* DELETE of every key of the app, in some order
RECURSIVE DeleteKeys(_, _)
DeleteKeys(p, keys) ==
    IF keys = {} THEN p
    ELSE LET key == CHOOSE k \in keys : TRUE
         IN DeleteKeys(Sent(p, "DELETE", "key", 200), keys \ {key})

\* unsubscribe(): nothing when an app id is given; else a refresh, a DELETE
\* for every key, a refresh
unsubscribe(p) ==
    IF p._test_app_id # "" THEN p
    ELSE LET first == LifeApp(p, TRUE)
             deleted == [DeleteKeys(first, first._TEST_APP.credentials) EXCEPT
                            !.apigee.credentials = {}]
         IN LifeApp(deleted, TRUE)

LifeUnsubscribe ==
    /\ Up /\ Steps
    /\ probe' = Ran(Raised(unsubscribe(probe), ""), "unsubscribe")
    /\ NoFlows

\* get_app_credentials_for_product without its check of _test_app_id
get_app_credentials_for_product_any_app(p, product_name, status) ==
    IF get_matching_creds(p._TEST_APP, product_name) # {} THEN Raised(p, "")
    ELSE LET put == Sent([p EXCEPT !._TEST_APP.apiProducts = <<product_name>>],
                         "PUT", "session", status)
             added == [put.apigee EXCEPT
                          !.credentials = @ \cup {[consumerKey |-> p.serial + 1,
                                                   apiproduct |-> product_name]}]
         IN IF status # 200 THEN Raised(put, "ValueError")
            ELSE [Raised(put, "") EXCEPT !.apigee = added, !._TEST_APP = added,
                                           !.serial = @ + 1]

\* get_app_credentials_for_product(.., app, product_name, _test_app_id), app
\* being the dict the callable returned, _TEST_APP itself: matching
\* credentials are returned; else ValueError when an app id is given; else
\* app["apiProducts"] is set, the app is PUT, and a good answer becomes
\* _TEST_APP
get_app_credentials_for_product(p, product_name, status) ==
    IF get_matching_creds(p._TEST_APP, product_name) # {} THEN Raised(p, "")
    ELSE IF p._test_app_id # "" THEN Raised(p, "ValueError")
    ELSE LET put == Sent([p EXCEPT !._TEST_APP.apiProducts = <<product_name>>],
                         "PUT", "session", status)
             added == [put.apigee EXCEPT
                          !.credentials = @ \cup {[consumerKey |-> p.serial + 1,
                                                   apiproduct |-> product_name]}]
         IN IF status # 200 THEN Raised(put, "ValueError")
            ELSE [Raised(put, "") EXCEPT !.apigee = added, !._TEST_APP = added,
                                           !.serial = @ + 1]

\* _test_app_credentials: app = nhsd_apim_test_app(), then
\* get_app_credentials_for_product
LifeCredentials ==
    /\ Up /\ Steps
    /\ \E product_name \in Products, status \in {200, 500} :
          probe' = Ran(get_app_credentials_for_product(LifeApp(probe, FALSE),
                                                       product_name, status),
                       "get_app_credentials_for_product")
    /\ NoFlows

LifeNext ==
    \/ CreateTestApp
    \/ TeardownTestApp
    \/ CreateFunctionScopedTestApp
    \/ TeardownFunctionScopedTestApp
    \/ LifeGetApp
    \/ LifeUnsubscribe
    \/ LifeCredentials

LifeSpec == LifeInit /\ [][LifeNext]_vars

\* C31: with an app id configured, every request sent to Apigee about an app
\* is a GET: no app is created, changed or deleted, at teardown neither.
C31_GivenAppOnlyRead ==
    probe._test_app_id # "" =>
        \A i \in 1..Len(probe.requests) : probe.requests[i].method = "GET"

\* C31: with an app id configured the credentials were asked for and not
\* found, unsubscribe has run and the fixture is torn down
C31_Witness ==
    /\ probe._test_app_id # ""
    /\ [operation |-> "get_app_credentials_for_product", raised |-> "ValueError"] \in probe.ran
    /\ [operation |-> "unsubscribe", raised |-> ""] \in probe.ran
    /\ probe.phase["session"] = "done"
    /\ probe.requests # <<>>


\* the DELETE requests sent for an app itself
DeletesOf(a) ==
    {j \in 1..Len(probe.requests) :
        probe.requests[j].method = "DELETE" /\ probe.requests[j].target = a}

\* C32: without an app id, every teardown of an app fixture has sent exactly
\* one DELETE for the app it created and leaves _TEST_APP None, whatever the
\* status of the answer to the DELETE.
C32_TeardownDeletesAndResets ==
    probe._test_app_id = "" =>
        \A i \in 1..Len(probe.torn) :
            /\ Cardinality(DeletesOf(probe.torn[i].app)) = 1
            /\ probe.torn[i].left = None


\* this step sent a PUT that was answered with a status other than 200
PutRefused ==
    /\ Len(probe'.requests) > Len(probe.requests)
    /\ probe'.requests[Len(probe'.requests)].method = "PUT"
    /\ probe'.requests[Len(probe'.requests)].status # 200

\* C35: when the PUT of get_app_credentials_for_product is answered with a
\* status other than 200, the call raises ValueError and _TEST_APP is the app
\* the callable returned before the call, apiProducts included.
C35_RefusedPutLeavesApp ==
    [][PutRefused =>
          /\ probe'.raised = "ValueError"
          /\ probe'._TEST_APP = LifeApp(probe, FALSE)._TEST_APP]_vars


(***************************************************************************)
(* The products of the organization (apigee_edge.py): get_all_products     *)
(* reads them page by page.  The server answers a request with the         *)
(* products from startKey on, startKey included, PageSize at most.         *)
(***************************************************************************)
PageSize == 1000
MaxProducts == 2004     \* products of the organization

Product(name, proxies, scopes) == [name |-> name, proxies |-> proxies, scopes |-> scopes]

\* the products of an organization that has n of them, in the server's order
Organization(n) == [i \in 1..n |-> Product(i, {}, {})]

\* GET organizations/{org}/apiproducts?expand=true&startKey=..: a page
ApiProduct(server, params) ==
    LET from == IF "startKey" \notin DOMAIN params THEN 1
                ELSE CHOOSE i \in 1..Len(server) : server[i].name = params.startKey
        to == IF from + PageSize - 1 < Len(server) THEN from + PageSize - 1 ELSE Len(server)
    IN SubSeq(server, from, to)

\* params.update({"startKey": name})
Update(params, name) == [expand |-> params.expand, startKey |-> name]

RECURSIVE get_all_products_keep_last(_, _, _, _)
RECURSIVE get_all_products_loop(_, _, _, _)

\* the loop with last = products[-1] for last = products.pop()
get_all_products_keep_last(server, params, products, pages) ==
    LET new_products == ApiProduct(server, params)
        extended == products \o new_products
        asked == Append(pages, [params |-> params, size |-> Len(new_products)])
    IN IF Len(new_products) = PageSize
       THEN get_all_products_loop(server, Update(params, extended[Len(extended)].name),
                                  extended, asked)
       ELSE [products |-> extended, pages |-> asked]

\* the while loop of get_all_products: a GET with params, the page appended
\* to products; a page of 1000 has its last product popped and its name made
\* the startKey of the next GET; any other page ends the loop
get_all_products_loop(server, params, products, pages) ==
    LET new_products == ApiProduct(server, params)
        extended == products \o new_products
        asked == Append(pages, [params |-> params, size |-> Len(new_products)])
    IN IF Len(new_products) = PageSize
       THEN get_all_products_loop(server, Update(params, extended[Len(extended)].name),
                                  SubSeq(extended, 1, Len(extended) - 1), asked)
       ELSE [products |-> extended, pages |-> asked]

\* get_all_products(_apigee_edge_session, nhsd_apim_config)
get_all_products(server) ==
    get_all_products_loop(server, [expand |-> "true"], <<>>, <<>>)

PagesInit ==
    /\ Init!1 /\ Init!2 /\ Init!3 /\ Init!4 /\ Init!5
    /\ Init!6 /\ Init!7 /\ Init!8 /\ Init!9
    /\ \E n \in 0..MaxProducts : probe = [n |-> n, got |-> None]

GetAllProducts ==
    /\ probe.got = None
    /\ probe' = [probe EXCEPT !.got = get_all_products(Organization(probe.n))]
    /\ Quiet

PagesNext == GetAllProducts

PagesSpec == PagesInit /\ [][PagesNext]_vars

\* C36: get_all_products returns the products of the organization, each once
\* and in the server's order; a further page is asked for exactly after a
\* page of 1000, with the name of that page's last product as startKey.
C36_AllProductsOnce ==
    probe.got # None =>
        LET pages == probe.got.pages
            server == Organization(probe.n)
        IN /\ probe.got.products = server
           /\ pages[1].params = [expand |-> "true"]
           /\ pages[Len(pages)].size # PageSize
           /\ \A k \in 1..(Len(pages) - 1) :
                 /\ pages[k].size = PageSize
                 /\ pages[k + 1].params =
                       Update(pages[k].params, ApiProduct(server, pages[k].params)[PageSize].name)

\* C36: an organization whose products fill two pages and end a third
C36_Witness ==
    /\ probe.got # None
    /\ Len(probe.got.pages) = 3
    /\ Len(probe.got.products) = 2 * PageSize - 1


(***************************************************************************)
(* _proxy_products (apigee_edge.py): the products that reference the proxy *)
(* under test, out of the list _APIGEE_PRODUCTS the module keeps, which is *)
(* read anew from Apigee when it holds none for the proxy.                 *)
(***************************************************************************)
Proxies == {"proxy-a", "proxy-b"}

\* product lists an organization may hold, now or later in the run
Organizations ==
    {<<>>,
     <<Product(1, {"proxy-a"}, {})>>,
     <<Product(1, {"proxy-a"}, {}), Product(2, {"proxy-a", "proxy-b"}, {})>>,
     <<Product(2, {"proxy-b"}, {}), Product(3, {}, {})>>}

\* [product for product in products if nhsd_apim_proxy_name in product["proxies"]]
Referencing(products, nhsd_apim_proxy_name) ==
    SelectSeq(products, LAMBDA product : nhsd_apim_proxy_name \in product.proxies)

\* _proxy_products refreshing the list on every call
_proxy_products_always_refresh(p, nhsd_apim_proxy_name) ==
    LET refreshed == [p EXCEPT !._APIGEE_PRODUCTS = get_all_products(p.apigee).products]
        proxy_products == Referencing(refreshed._APIGEE_PRODUCTS, nhsd_apim_proxy_name)
    IN [p |-> refreshed, fetched |-> 1,
        raised |-> IF Len(proxy_products) = 0 THEN "ValueError" ELSE "",
        value |-> proxy_products]

\* _proxy_products(_apigee_edge_session, nhsd_apim_proxy_name, nhsd_apim_config):
\* the new state, the calls of get_all_products made, and the list returned
\* or the error raised
_proxy_products(p, nhsd_apim_proxy_name) ==
    LET first == Referencing(p._APIGEE_PRODUCTS, nhsd_apim_proxy_name)
        refresh == Len(first) = 0
        refreshed == IF refresh
                     THEN [p EXCEPT !._APIGEE_PRODUCTS = get_all_products(p.apigee).products]
                     ELSE p
        proxy_products == Referencing(refreshed._APIGEE_PRODUCTS, nhsd_apim_proxy_name)
    IN [p |-> refreshed, fetched |-> IF refresh THEN 1 ELSE 0,
        raised |-> IF Len(proxy_products) = 0 THEN "ValueError" ELSE "",
        value |-> proxy_products]

ProductsInit ==
    /\ Init!1 /\ Init!2 /\ Init!3 /\ Init!4 /\ Init!5
    /\ Init!6 /\ Init!7 /\ Init!8 /\ Init!9
    /\ \E apigee \in Organizations :
          probe = [_APIGEE_PRODUCTS |-> <<>>, apigee |-> apigee, log |-> <<>>]

\* a test asks for the products of its proxy
ProxyProducts ==
    /\ Steps
    /\ \E nhsd_apim_proxy_name \in Proxies :
          LET r == _proxy_products(probe, nhsd_apim_proxy_name)
          IN probe' = [r.p EXCEPT !.log = Append(@,
                          [nhsd_apim_proxy_name |-> nhsd_apim_proxy_name,
                           before |-> probe._APIGEE_PRODUCTS, apigee |-> probe.apigee,
                           after |-> r.p._APIGEE_PRODUCTS, fetched |-> r.fetched,
                           raised |-> r.raised, value |-> r.value])]
    /\ NoFlows

\* products are created or deleted on Apigee during the run
ProductsChange ==
    /\ \E apigee \in Organizations \ {probe.apigee} : probe' = [probe EXCEPT !.apigee = apigee]
    /\ Len(probe.log) < MaxAppSteps
    /\ Quiet

ProductsNext == ProxyProducts \/ ProductsChange

ProductsSpec == ProductsInit /\ [][ProductsNext]_vars

\* C33: a call of _proxy_products that returns, returns a list that is not
\* empty and holds the products of _APIGEE_PRODUCTS that reference the proxy;
\* it reads the products from Apigee once if the kept list had none for the
\* proxy and not at all otherwise; it raises ValueError exactly when the list
\* just read has none either.
C33_ProxyProductsNeverEmpty ==
    \A i \in 1..Len(probe.log) :
        LET call == probe.log[i]
            kept == Referencing(call.before, call.nhsd_apim_proxy_name)
        IN /\ call.raised = "" =>
                 /\ call.value # <<>>
                 /\ call.value = Referencing(call.after, call.nhsd_apim_proxy_name)
           /\ call.fetched = (IF kept = <<>> THEN 1 ELSE 0)
           /\ call.raised = "ValueError" <=>
                 /\ kept = <<>>
                 /\ Referencing(call.apigee, call.nhsd_apim_proxy_name) = <<>>
           /\ call.raised \in {"", "ValueError"}

\* C33: a call answered from the kept list, a call that refreshed it and
\* returned, and a call that refreshed it and raised
C33_Witness ==
    /\ \E i \in 1..Len(probe.log) :
          probe.log[i].fetched = 0 /\ probe.log[i].raised = ""
    /\ \E i \in 1..Len(probe.log) :
          probe.log[i].fetched = 1 /\ probe.log[i].raised = "" /\ probe.log[i].before # <<>>
    /\ \E i \in 1..Len(probe.log) :
          probe.log[i].fetched = 1 /\ probe.log[i].raised = "ValueError"


(***************************************************************************)
(* The configuration (config.py): the flags of _PYTEST_CONFIG, registered  *)
(* with their defaults by pytest_addoption, and nhsd_apim_config, which    *)
(* reads each from the command line or from the environment.               *)
(***************************************************************************)
MaxSettings == 3        \* flags passed and variables set per run

\* the flags in the order of _PYTEST_CONFIG
Flags ==
    <<"--api-name", "--proxy-name", "--apigee-access-token", "--apigee-organization",
      "--apigee-developer", "--apigee-app-id", "--status-endpoint-api-key",
      "--jwt-public-key-id">>

\* attrs.get("default") of a flag
Default(flag) ==
    CASE flag = "--api-name" -> Str("")
      [] flag = "--proxy-name" -> Str("")
      [] flag = "--apigee-access-token" -> None
      [] flag = "--apigee-organization" -> Str("nhsd-nonprod")
      [] flag = "--apigee-developer" -> Str("apm-testing-internal-dev@nhs.net")
      [] flag = "--apigee-app-id" -> Str("")
      [] flag = "--status-endpoint-api-key" -> Str("")
      [] flag = "--jwt-public-key-id" -> Str("test-1")

\* flag[2:].replace("-", "_").upper()
_flag_to_dest(flag) ==
    CASE flag = "--api-name" -> "API_NAME"
      [] flag = "--proxy-name" -> "PROXY_NAME"
      [] flag = "--apigee-access-token" -> "APIGEE_ACCESS_TOKEN"
      [] flag = "--apigee-organization" -> "APIGEE_ORGANIZATION"
      [] flag = "--apigee-developer" -> "APIGEE_DEVELOPER"
      [] flag = "--apigee-app-id" -> "APIGEE_APP_ID"
      [] flag = "--status-endpoint-api-key" -> "STATUS_ENDPOINT_API_KEY"
      [] flag = "--jwt-public-key-id" -> "JWT_PUBLIC_KEY_ID"

FlagSet == {Flags[i] : i \in 1..Len(Flags)}
Dests == {_flag_to_dest(flag) : flag \in FlagSet}

\* pytest_addoption, then the parse of a command line that passes the flags
\* of `passed`: request.config.option holds the value passed or the default
pytest_addoption(passed) ==
    [name \in Dests |->
        LET flag == CHOOSE f \in FlagSet : _flag_to_dest(f) = name
        IN IF flag \in passed THEN Str("cli") ELSE Default(flag)]

\* os.environ with the variables of `exported` set
Environ(exported) == [name \in Dests |-> IF name \in exported THEN Str("env") ELSE None]

\* _get_config(flag)
_get_config(option, environ, flag) ==
    LET name == _flag_to_dest(flag)
        cmd_line_value == option[name]
        env_var_value == environ[name]
    IN IF cmd_line_value # None THEN [raised |-> "", value |-> cmd_line_value]
       ELSE IF env_var_value # None THEN [raised |-> "", value |-> env_var_value]
       ELSE [raised |-> "ValueError", value |-> Tup(<<Str(flag), Str(name)>>)]

\* nhsd_apim_config(request): the dict of all keys, or the error of the first
\* flag that has no value
nhsd_apim_config(option, environ) ==
    LET missing == {i \in 1..Len(Flags) : _get_config(option, environ, Flags[i]).raised # ""}
    IN IF missing # {}
       THEN LET i == CHOOSE j \in missing : \A k \in missing : j <= k
            IN [raised |-> "ValueError", flag |-> Flags[i], name |-> _flag_to_dest(Flags[i]),
                value |-> <<>>]
       ELSE [raised |-> "", flag |-> "", name |-> "",
             value |-> [name \in Dests |->
                          _get_config(option, environ,
                                      CHOOSE f \in FlagSet : _flag_to_dest(f) = name).value]]

ConfigInit ==
    /\ Init!1 /\ Init!2 /\ Init!3 /\ Init!4 /\ Init!5
    /\ Init!6 /\ Init!7 /\ Init!8 /\ Init!9
    /\ \E passed \in SUBSET FlagSet, exported \in SUBSET Dests :
          /\ Cardinality(passed) + Cardinality(exported) <= MaxSettings
          /\ probe = [passed |-> passed, exported |-> exported, out |-> None]

\* the session asks for the fixture
Configure ==
    /\ probe.out = None
    /\ probe' = [probe EXCEPT
                    !.out = nhsd_apim_config(pytest_addoption(probe.passed),
                                             Environ(probe.exported))]
    /\ Quiet

ConfigNext == Configure

ConfigSpec == ConfigInit /\ [][ConfigNext]_vars

\* C34: for every key, the value passed on the command line is the one
\* returned; with the flag not passed and the variable set, the variable's
\* value is returned; and ValueError, naming flag and variable, is raised only
\* for a key that neither source gives a value.
C34_CommandLineThenEnvironment ==
    probe.out # None =>
        /\ probe.out.raised = "" =>
              \A flag \in FlagSet :
                  LET name == _flag_to_dest(flag)
                  IN /\ flag \in probe.passed => probe.out.value[name] = Str("cli")
                     /\ flag \notin probe.passed /\ name \in probe.exported =>
                           probe.out.value[name] = Str("env")
        /\ probe.out.raised # "" =>
              /\ probe.out.raised = "ValueError"
              /\ probe.out.flag \notin probe.passed
              /\ probe.out.name = _flag_to_dest(probe.out.flag)
              /\ probe.out.name \notin probe.exported


(***************************************************************************)
(* The identity service of a config (identity_service.py): the default of  *)
(* identity_service_base_url in ClientCredentialsConfig,                   *)
(* TokenExchangeConfig and AuthorizationCodeConfig, and the endpoints the  *)
(* authenticators build from it.  A URL is the sequence of its parts.      *)
(***************************************************************************)
ConfigClasses == {"ClientCredentialsConfig", "TokenExchangeConfig", "AuthorizationCodeConfig"}

\* the Literal of the field environment
Environments ==
    {"internal-dev", "internal-qa", "internal-dev-sandbox", "internal-qa-sandbox",
     "ref", "sandbox", "dev", "int", "prod"}

\* _identity_service_base_url(env)
_identity_service_base_url(env) ==
    LET prefix == IF env # "prod" THEN <<"https://", env, ".">> ELSE <<"https://">>
    IN prefix \o <<"api.service.nhs.uk", "/oauth2-mock">>

\* the class body: environment = "internal-dev", and then
\* identity_service_base_url = _identity_service_base_url(environment),
\* evaluated once with the name environment of the class body
ClassDefaults ==
    LET environment == "internal-dev"
    IN [environment |-> environment,
        identity_service_base_url |-> _identity_service_base_url(environment)]

\* cls(**kwargs): a field not passed takes its default; the environment must
\* be of the Literal, and validate_environment of AuthorizationCodeConfig
\* refuses prod
ConstructConfig(cls, kwargs) ==
    LET fields == [name \in DOMAIN ClassDefaults |->
                      IF name \in DOMAIN kwargs THEN kwargs[name] ELSE ClassDefaults[name]]
    IN IF fields.environment \notin Environments
          \/ (cls = "AuthorizationCodeConfig" /\ "environment" \in DOMAIN kwargs
                /\ fields.environment = "prod")
       THEN [raised |-> "ValidationError", config |-> <<>>]
       ELSE [raised |-> "", config |-> fields]

\* the URLs the authenticator of the config sends to: POST {base}/token, and
\* for the authorization code flow GET {base}/authorize first
Endpoints(cls, config) ==
    IF cls = "AuthorizationCodeConfig"
    THEN <<config.identity_service_base_url \o <<"/authorize">>,
           config.identity_service_base_url \o <<"/token">>>>
    ELSE <<config.identity_service_base_url \o <<"/token">>>>

\* the keyword arguments of a construction: the environment passed or not
\* (one value is not of the Literal), the base URL passed or not
Kwargs ==
    {<<>>} \cup
    {[environment |-> e] : e \in Environments \cup {"live"}} \cup
    {[identity_service_base_url |-> <<"https://", "example.org">>]} \cup
    {[environment |-> e, identity_service_base_url |-> _identity_service_base_url(e)] :
        e \in Environments}

UrlInit ==
    /\ Init!1 /\ Init!2 /\ Init!3 /\ Init!4 /\ Init!5
    /\ Init!6 /\ Init!7 /\ Init!8 /\ Init!9
    /\ \E cls \in ConfigClasses, kwargs \in Kwargs :
          probe = [cls |-> cls, kwargs |-> kwargs, built |-> <<>>, urls |-> <<>>]

\* the test builds its config
BuildConfig ==
    /\ probe.built = <<>>
    /\ probe' = [probe EXCEPT !.built = <<ConstructConfig(probe.cls, probe.kwargs)>>]
    /\ Quiet

\* the test calls get_token of the authenticator of its config
UseConfig ==
    /\ probe.built # <<>>
    /\ probe.built[1].raised = ""
    /\ probe.urls = <<>>
    /\ probe' = [probe EXCEPT !.urls = Endpoints(probe.cls, probe.built[1].config)]
    /\ Quiet

UrlNext == BuildConfig \/ UseConfig

UrlSpec == UrlInit /\ [][UrlNext]_vars

\* C37: a config built without identity_service_base_url sends to the
\* authorize and token endpoints of its own environment, and
\* AuthorizationCodeConfig is not built for environment prod.
C37_EndpointsOfEnvironment ==
    /\ probe.urls # <<>> /\ "identity_service_base_url" \notin DOMAIN probe.kwargs =>
          \A i \in 1..Len(probe.urls) :
              SubSeq(probe.urls[i], 1, Len(probe.urls[i]) - 1) =
                  _identity_service_base_url(probe.built[1].config.environment)
    /\ probe.built # <<>> /\ probe.cls = "AuthorizationCodeConfig"
          /\ "environment" \in DOMAIN probe.kwargs /\ probe.kwargs.environment = "prod" =>
          probe.built[1].raised = "ValidationError"

====
